---- MODULE Spec2Model ----
(***************************************************************************)
(* A model of the source-type detection and extraction routing subsystem   *)
(* of ai-daily-tech-news-automation: the per-domain rate limiter           *)
(* (src/src/utils/rate_limiter.py), the source detector                    *)
(* (src/src/detection/source_detector.py), the configuration model         *)
(* (src/src/models.py), the extractors (src/src/extractors), the           *)
(* orchestrator (src/src/scraper/news_scraper.py) and the per-URL loop of  *)
(* main (src/main.py).                                                     *)
(*                                                                         *)
(* Python str values are TLA+ strings; Python None is the string "None"    *)
(* where a value is optional.  Times and durations are exact fractions of  *)
(* a second.                                                               *)
(***************************************************************************)
EXTENDS Integers, Sequences, FiniteSets, TLC

(* Python str operations.  A str is a TLA+ string over the characters       *)
(* U+0001 .. U+00FF.                                                       *)

None == "None"

\* None where the value is otherwise a time or a duration
NoTime == [num |-> 0 - 1, den |-> 1]

Min(a, b) == IF a <= b THEN a ELSE b

\* s[i-1] of Python, as a one-character string
Char(s, i) == SubSeq(s, i, i)

\* s.startswith(p)
StartsWith(s, p) == Len(p) <= Len(s) /\ SubSeq(s, 1, Len(p)) = p

\* s.endswith(p)
EndsWith(s, p) == Len(p) <= Len(s) /\ SubSeq(s, Len(s) - Len(p) + 1, Len(s)) = p

\* p in s
Contains(s, p) == \E i \in 1..(Len(s) - Len(p) + 1) : SubSeq(s, i, i + Len(p) - 1) = p

\* s[i-1:] of Python (the suffix starting at the 1-based position i)
From(s, i) == SubSeq(s, i, Len(s))

\* chr(1) .. chr(255), in order
Latin1 ==
    "\t\n\f\r !\"#$%&'()*+,-./0123456789:;<=>?@ABCDEFGHIJKLMNOPQRSTUVWXYZ[\\]^_"
        \o Char("`'", 1)
        \o "abcdefghijklmnopqrstuvwxyz{|}~ ¡¢£¤¥¦§¨©ª«¬­®¯°±²³´µ¶·¸¹º»¼½¾¿ÀÁÂÃÄÅÆÇÈÉÊËÌÍÎÏÐÑÒÓÔÕÖ×ØÙÚÛÜÝÞßàáâãäåæçèéêëìíîïðñòóôõö÷øùúûüýþÿ"

\* chr(n)
Chr(n) == Char(Latin1, n)

\* ord(c)
Ord(c) == CHOOSE n \in 1..Len(Latin1) : Chr(n) = c

\* the characters with the given code points
CharsOf(codes) == {Chr(n) : n \in codes}

\* the characters str.strip() removes: those with c.isspace()
Whitespace == CharsOf((9..13) \cup (28..32) \cup {133, 160})

\* the ASCII letters (c.isascii() and c.isalpha())
Letters == CharsOf((65..90) \cup (97..122))

\* the ASCII digits (c.isascii() and c.isdigit())
Digits == CharsOf(48..57)

\* the 1-based positions of s holding a character of the set cs
Positions(s, cs) == {i \in 1..Len(s) : Char(s, i) \in cs}

\* the least element of a non-empty set of integers
Least(S) == CHOOSE i \in S : \A j \in S : i <= j

\* the greatest element of a non-empty set of integers
Greatest(S) == CHOOSE i \in S : \A j \in S : j <= i

\* s.rstrip("/")
RStripSlash(s) ==
    LET kept == {i \in 1..Len(s) : Char(s, i) # "/"} IN
    IF kept = {} THEN "" ELSE SubSeq(s, 1, Greatest(kept))

\* s.lstrip()
LStripSpace(s) ==
    LET kept == {i \in 1..Len(s) : Char(s, i) \notin Whitespace} IN
    IF kept = {} THEN "" ELSE From(s, Least(kept))

\* s.rstrip()
RStripSpace(s) ==
    LET kept == {i \in 1..Len(s) : Char(s, i) \notin Whitespace} IN
    IF kept = {} THEN "" ELSE SubSeq(s, 1, Greatest(kept))

\* s.strip()
Strip(s) == RStripSpace(LStripSpace(s))

\* s with every character of the set cs removed (s.replace(c, "") for each)
RECURSIVE Without(_, _)
Without(s, cs) ==
    IF Len(s) = 0 THEN ""
    ELSE IF Len(s) = 1 THEN (IF s \in cs THEN "" ELSE s)
    ELSE LET mid == Len(s) \div 2 IN
         Without(SubSeq(s, 1, mid), cs) \o Without(From(s, mid + 1), cs)

\* str.lower() of one character: the capitals A-Z, U+00C0-U+00D6 and
\* U+00D8-U+00DE, each to its small letter 32 code points above
LowerMap ==
    [c \in CharsOf((65..90) \cup (192..214) \cup (216..222)) |-> Chr(Ord(c) + 32)]

LowerChar(c) ==
    LET lowered(table) == IF c \in DOMAIN table THEN table[c] ELSE c IN lowered(LowerMap)

\* s.lower()
RECURSIVE Lower(_)
Lower(s) ==
    IF Len(s) = 0 THEN ""
    ELSE IF Len(s) = 1 THEN LowerChar(s)
    ELSE LET mid == Len(s) \div 2 IN
         Lower(SubSeq(s, 1, mid)) \o Lower(From(s, mid + 1))

\* the characters the regular expression \w matches in a str pattern:
\* [a-zA-Z0-9_] and the letters and numeric characters above U+007F
WordChars ==
    Letters \cup Digits \cup {"_"}
        \cup CharsOf({170, 178, 179, 181, 185, 186, 188, 189, 190}
                     \cup (192..214) \cup (216..246) \cup (248..255))

\* re.search(lit + r'\w+', s, re.IGNORECASE) for a literal lit
SearchLiteralThenWord(lit, s) ==
    LET low == Lower(s) IN
    \E i \in 1..(Len(s) - Len(lit)) :
        /\ SubSeq(low, i, i + Len(lit) - 1) = lit
        /\ Char(s, i + Len(lit)) \in WordChars

\* re.search(lit, s, re.IGNORECASE) for a literal lit
SearchLiteral(lit, s) == Contains(Lower(s), lit)

\* re.search(lit + r'/?$', s, re.IGNORECASE): `$` matches at the end of the
\* string and before a newline that ends it
SearchLiteralAtEnd(lit, s) ==
    LET at_end(low) ==
            \/ EndsWith(low, lit)
            \/ EndsWith(low, "\n") /\ EndsWith(SubSeq(low, 1, Len(low) - 1), lit)
    IN  at_end(Lower(s))

\* s.split(c) for a one-character separator c
RECURSIVE Split(_, _)
Split(s, c) ==
    LET cuts == Positions(s, {c}) IN
    IF cuts = {} THEN <<s>>
    ELSE <<SubSeq(s, 1, Least(cuts) - 1)>> \o Split(From(s, Least(cuts) + 1), c)

\* c.join(parts)
RECURSIVE Join(_, _)
Join(parts, c) ==
    IF Len(parts) = 0 THEN ""
    ELSE IF Len(parts) = 1 THEN parts[1]
    ELSE LET mid == Len(parts) \div 2 IN
         Join(SubSeq(parts, 1, mid), c) \o c \o Join(SubSeq(parts, mid + 1, Len(parts)), c)

\* one decimal digit as a string
Digit(n) == Char("0123456789", n + 1)

\* str(n) for an integer n
RECURSIVE Decimal(_)
Decimal(n) ==
    IF n < 0 THEN "-" \o Decimal(0 - n)
    ELSE IF n < 10 THEN Digit(n)
    ELSE Decimal(n \div 10) \o Digit(n % 10)

\* repr(s): quoted, with the escapes of the characters that do not print
Repr(s) ==
    LET quote == IF Contains(s, "'") /\ ~Contains(s, "\"") THEN "\"" ELSE "'"
        unprintable == CharsOf((1..31) \cup (127..160) \cup {173})
        hex(n) == Char("0123456789abcdef", n + 1)
        escape(c) ==
            IF c = "\\" THEN "\\\\"
            ELSE IF c = quote THEN "\\" \o c
            ELSE IF c = "\t" THEN "\\t"
            ELSE IF c = "\n" THEN "\\n"
            ELSE IF c = "\r" THEN "\\r"
            ELSE IF c \in unprintable
            THEN "\\x" \o hex(Ord(c) \div 16) \o hex(Ord(c) % 16)
            ELSE c
    IN  quote \o Join([i \in 1..Len(s) |-> escape(Char(s, i))], "") \o quote

-----------------------------------------------------------------------------
(* urllib.parse, as rate_limiter.py, text_cleaner.py and rss_extractor.py   *)
(* call it, and the parts of ipaddress it calls.                           *)

\* ipaddress.IPv4Address(s) accepts s: four octets, each a decimal numeral
\* of at most three ASCII digits, without a leading zero, not above 255
IsIPv4Address(s) ==
    LET octet(o) == o \in {Decimal(n) : n \in 0..255}
        four(octets) == Len(octets) = 4 /\ \A k \in 1..4 : octet(octets[k])
    IN  ~Contains(s, "/") /\ four(Split(s, "."))

\* ipaddress.IPv6Address(s) accepts s
IsIPv6Address(s) ==
    LET hextet(h) == Len(h) \in 1..4
                     /\ \A i \in 1..Len(h) :
                            Char(h, i) \in Digits \cup CharsOf((65..70) \cup (97..102))
        \* the parts around the one '::', found at parts[skip]
        compressed(parts, n, skip) ==
            LET parts_hi == IF parts[1] = "" THEN skip - 2 ELSE skip - 1
                parts_lo == IF parts[n] = "" THEN n - skip - 1 ELSE n - skip
            IN  /\ parts[1] = "" => parts_hi = 0
                /\ parts[n] = "" => parts_lo = 0
                /\ 8 - (parts_hi + parts_lo) >= 1
                /\ \A i \in 1..parts_hi : hextet(parts[i])
                /\ \A i \in (n - parts_lo + 1)..n : hextet(parts[i])
        hextets(parts, n) ==
            LET skips == {i \in 2..(n - 1) : parts[i] = ""} IN
            /\ n <= 9
            /\ Cardinality(skips) <= 1
            /\ IF skips # {} THEN compressed(parts, n, Least(skips))
               ELSE n = 8 /\ \A i \in 1..n : hextet(parts[i])
        \* an IPv4 address written last stands for two hextets
        groups(written) ==
            LET n == Len(written)
                ipv4_suffix == Contains(written[n], ".")
            IN  /\ n >= 3
                /\ ipv4_suffix => IsIPv4Address(written[n])
                /\ hextets(IF ipv4_suffix THEN SubSeq(written, 1, n - 1) \o <<"0", "0">>
                           ELSE written,
                           IF ipv4_suffix THEN n + 1 ELSE n)
        percents == Positions(s, {"%"})
        addr == IF percents = {} THEN s ELSE SubSeq(s, 1, Least(percents) - 1)
    IN  /\ ~Contains(s, "/")
        /\ percents = {} \/ (Least(percents) < Len(s)
                             /\ ~Contains(From(s, Least(percents) + 1), "%"))
        /\ addr # ""
        /\ groups(Split(addr, ":"))

\* urllib.parse._check_bracketed_host(hostname): str() of the ValueError it
\* raises, None when it accepts the host
check_bracketed_host(hostname) ==
    IF StartsWith(hostname, "v")
    THEN LET others == {i \in 2..Len(hostname) :
                            Char(hostname, i) \notin
                                Digits \cup CharsOf((65..70) \cup (97..102))}
         IN  IF /\ others # {}
                /\ Least(others) > 2
                /\ Char(hostname, Least(others)) = "."
                /\ Least(others) < Len(hostname)
                /\ Positions(hostname, {"\n"}) = {}
             THEN None
             ELSE "IPvFuture address is invalid"
    ELSE IF IsIPv4Address(hostname) THEN "An IPv4 address cannot be in brackets"
    ELSE IF IsIPv6Address(hostname) THEN None
    ELSE Repr(hostname) \o " does not appear to be an IPv4 or IPv6 address"

\* urlsplit, the scheme test, on a url already stripped: the 1-based position
\* of the first ':' when what precedes it is a scheme (an ASCII letter, then
\* letters, digits, '+', '-' or '.'), else 0
SchemeEnd(url) ==
    LET colons == Positions(url, {":"}) IN
    IF colons = {} THEN 0
    ELSE LET i == Least(colons) IN
         IF /\ i > 1
            /\ Char(url, 1) \in Letters
            /\ \A k \in 1..(i - 1) : Char(url, k) \in Letters \cup Digits \cup {"+", "-", "."}
         THEN i
         ELSE 0

\* urllib.parse.urlsplit(url, scheme): the five components, or in raised
\* the str() of the ValueError (None when it returns).  The leading
\* characters up to U+0020 and every tab, CR and LF are dropped first.
urlsplit(url0, scheme0) ==
    LET c0_control_or_space == CharsOf(1..32)
        unsafe == {"\t", "\r", "\n"}
        lstripped(s) ==
            LET kept == {k \in 1..Len(s) : Char(s, k) \notin c0_control_or_space} IN
            IF kept = {} THEN "" ELSE From(s, Least(kept))
        stripped(s) ==
            LET kept == {k \in 1..Len(s) : Char(s, k) \notin c0_control_or_space} IN
            IF kept = {} THEN "" ELSE SubSeq(s, Least(kept), Greatest(kept))
        \* the fragment, the query and the path of the url after the netloc
        components(raised, scheme, netloc, url) ==
            LET hashes == Positions(url, {"#"})
                before == IF hashes = {} THEN url ELSE SubSeq(url, 1, Least(hashes) - 1)
                marks == Positions(before, {"?"})
            IN  IF raised # None
                THEN [raised |-> raised, scheme |-> "", netloc |-> "", path |-> "",
                      query |-> "", fragment |-> ""]
                ELSE [raised |-> None, scheme |-> scheme, netloc |-> netloc,
                      path |-> IF marks = {} THEN before
                               ELSE SubSeq(before, 1, Least(marks) - 1),
                      query |-> IF marks = {} THEN "" ELSE From(before, Least(marks) + 1),
                      fragment |-> IF hashes = {} THEN "" ELSE From(url, Least(hashes) + 1)]
        \* netloc.partition('[')[2].partition(']')[0], given what follows the '['
        bracketed_host(after_open) ==
            LET ends == Positions(after_open, {"]"}) IN
            IF ends = {} THEN after_open ELSE SubSeq(after_open, 1, Least(ends) - 1)
        \* the url after the scheme: the netloc, the check of its brackets, and
        \* the rest
        after_scheme(scheme, url) ==
            LET has_netloc == StartsWith(url, "//")
                delims == {k \in Positions(url, {"/", "?", "#"}) : k > 2}
                delim == IF delims = {} THEN Len(url) + 1 ELSE Least(delims)
                netloc == IF has_netloc THEN SubSeq(url, 3, delim - 1) ELSE ""
                opens == Positions(netloc, {"["})
                closes == Positions(netloc, {"]"})
            IN  components(
                    IF (opens = {}) # (closes = {}) THEN "Invalid IPv6 URL"
                    ELSE IF opens # {}
                    THEN check_bracketed_host(
                             bracketed_host(From(netloc, Least(opens) + 1)))
                    ELSE None,
                    scheme, netloc, IF has_netloc THEN From(url, delim) ELSE url)
        \* the scheme of the stripped url, the default scheme when it has none,
        \* and the url after it
        scheme_of(url, scheme1) ==
            LET i == SchemeEnd(url) IN
            IF i > 0 THEN Lower(SubSeq(url, 1, i - 1)) ELSE scheme1
        rest_of(url) ==
            LET i == SchemeEnd(url) IN IF i > 0 THEN From(url, i + 1) ELSE url
    IN  after_scheme(scheme_of(Without(lstripped(url0), unsafe),
                               Without(stripped(scheme0), unsafe)),
                     rest_of(Without(lstripped(url0), unsafe)))

\* the schemes urllib.parse lists in uses_relative, uses_netloc, uses_params
uses_relative ==
    {"", "ftp", "http", "gopher", "nntp", "imap", "wais", "file", "https", "shttp",
     "mms", "prospero", "rtsp", "rtsps", "rtspu", "sftp", "svn", "svn+ssh", "ws", "wss"}

uses_netloc ==
    {"", "ftp", "http", "gopher", "nntp", "telnet", "imap", "wais", "file", "mms",
     "https", "shttp", "snews", "prospero", "rtsp", "rtsps", "rtspu", "rsync", "svn",
     "svn+ssh", "sftp", "nfs", "git", "git+ssh", "ws", "wss"}

uses_params ==
    {"", "ftp", "hdl", "prospero", "http", "imap", "https", "shttp", "rtsp", "rtsps",
     "rtspu", "sip", "sips", "mms", "sftp", "tel"}

\* urllib.parse.urlparse(url, scheme): urlsplit and the params of the last
\* path segment
urlparse(url0, scheme0) ==
    LET splitparams(split) ==
            LET slashes == Positions(split.path, {"/"})
                last_slash == IF slashes = {} THEN 0 ELSE Greatest(slashes)
                semis == {k \in Positions(split.path, {";"}) : k >= last_slash}
                cut == IF split.scheme \in uses_params /\ semis # {} THEN Least(semis)
                       ELSE 0
            IN  [raised |-> split.raised, scheme |-> split.scheme,
                 netloc |-> split.netloc,
                 path |-> IF cut = 0 THEN split.path ELSE SubSeq(split.path, 1, cut - 1),
                 params |-> IF cut = 0 THEN "" ELSE From(split.path, cut + 1),
                 query |-> split.query, fragment |-> split.fragment]
    IN  splitparams(urlsplit(url0, scheme0))

\* urllib.parse.urlunparse of the six components of parsed
urlunparse(parsed) ==
    LET url1 == IF parsed.params # "" THEN parsed.path \o ";" \o parsed.params
                ELSE parsed.path
        url2 == IF \/ parsed.netloc # ""
                   \/ /\ parsed.scheme # ""
                      /\ parsed.scheme \in uses_netloc
                      /\ ~StartsWith(url1, "//")
                THEN "//" \o parsed.netloc
                        \o (IF url1 # "" /\ ~StartsWith(url1, "/") THEN "/" ELSE "")
                        \o url1
                ELSE url1
        url3 == IF parsed.scheme # "" THEN parsed.scheme \o ":" \o url2 ELSE url2
        url4 == IF parsed.query # "" THEN url3 \o "?" \o parsed.query ELSE url3
    IN  IF parsed.fragment # "" THEN url4 \o "#" \o parsed.fragment ELSE url4

\* urljoin, the loop over segments: resolved_path after it
RECURSIVE resolved_path(_)
resolved_path(segments) ==
    IF Len(segments) = 0 THEN <<>>
    ELSE LET before == resolved_path(SubSeq(segments, 1, Len(segments) - 1))
             seg == segments[Len(segments)]
         IN  IF seg = ".." THEN SubSeq(before, 1, Len(before) - 1)
             ELSE IF seg = "." THEN before
             ELSE Append(before, seg)

\* urllib.parse.urljoin(base, url): in value the URL it returns, or in raised
\* the str() of the ValueError of urlparse (None when it returns)
urljoin(base, url) ==
    LET filled(seg) == seg # ""
        \* base_parts: the segments of the base path but the last, if not empty
        base_parts(parts) ==
            IF parts[Len(parts)] # "" THEN SubSeq(parts, 1, Len(parts) - 1) ELSE parts
        \* segments[1:-1] = filter(None, segments[1:-1])
        filtered(segments) ==
            IF Len(segments) < 2 THEN segments
            ELSE <<segments[1]>>
                     \o SelectSeq(SubSeq(segments, 2, Len(segments) - 1), filled)
                     \o <<segments[Len(segments)]>>
        resolved(segments) ==
            IF segments[Len(segments)] \in {".", ".."}
            THEN Append(resolved_path(segments), "")
            ELSE resolved_path(segments)
        or_slash(path) == IF path = "" THEN "/" ELSE path
        merged(bpath, path) ==
            or_slash(Join(resolved(IF StartsWith(path, "/") THEN Split(path, "/")
                                   ELSE filtered(base_parts(Split(bpath, "/"))
                                                     \o Split(path, "/"))),
                          "/"))
        joined(b, r) ==
            IF r.raised # None THEN [raised |-> r.raised, value |-> ""]
            ELSE IF r.scheme # b.scheme \/ r.scheme \notin uses_relative
            THEN [raised |-> None, value |-> url]
            ELSE [raised |-> None,
                  value |-> urlunparse(
                      IF r.scheme \in uses_netloc /\ r.netloc # "" THEN r
                      ELSE IF r.path = "" /\ r.params = ""
                      THEN [r EXCEPT !.netloc = IF r.scheme \in uses_netloc THEN b.netloc
                                                ELSE r.netloc,
                                     !.path = b.path,
                                     !.params = b.params,
                                     !.query = IF r.query = "" THEN b.query ELSE r.query]
                      ELSE [r EXCEPT !.netloc = IF r.scheme \in uses_netloc THEN b.netloc
                                                ELSE r.netloc,
                                     !.path = merged(b.path, r.path)])]
        with_base(b) ==
            IF b.raised # None THEN [raised |-> b.raised, value |-> ""]
            ELSE joined(b, urlparse(url, b.scheme))
    IN  IF base = "" THEN [raised |-> None, value |-> url]
        ELSE IF url = "" THEN [raised |-> None, value |-> base]
        ELSE with_base(urlparse(base, ""))

-----------------------------------------------------------------------------
(* SourceType and SourceConfig: src/src/models.py *)

RSS_FEED == "rss_feed"
ATOM_FEED == "atom_feed"
STATIC_HTML == "static_html"
DYNAMIC_HTML == "dynamic_html"
REDDIT == "reddit"
STACKOVERFLOW == "stackoverflow"
GENERIC_FORUM == "generic_forum"
UNSUPPORTED == "unsupported"
UNKNOWN == "unknown"

SourceType == {RSS_FEED, ATOM_FEED, STATIC_HTML, DYNAMIC_HTML, REDDIT, STACKOVERFLOW,
               GENERIC_FORUM, UNSUPPORTED, UNKNOWN}

\* SourceConfig.__post_init__: the exception it raises, None when the
\* configuration is accepted
SourceConfig_post_init(url, max_items) ==
    IF url = "" \/ ~(StartsWith(url, "http://") \/ StartsWith(url, "https://"))
    THEN "ValueError"
    ELSE IF max_items < 1 THEN "ValueError"
    ELSE None

-----------------------------------------------------------------------------
(* get_domain_name: src/src/utils/text_cleaner.py *)

\* the netloc of the URL without a leading "www.", the URL itself when
\* urlparse raises
get_domain_name(url) ==
    LET domain(parsed) ==
            IF parsed.raised # None THEN url
            ELSE IF StartsWith(parsed.netloc, "www.") THEN From(parsed.netloc, 5)
            ELSE parsed.netloc
    IN  domain(urlparse(url, ""))

-----------------------------------------------------------------------------
(* SourceDetector: src/src/detection/source_detector.py *)

\* SourceDetector._check_platform_patterns: the platform type, None when no
\* pattern matches (the patterns are tried in the order of the dictionary)
check_platform_patterns(url) ==
    IF \/ SearchLiteralThenWord("reddit.com/r/", url)
       \/ SearchLiteralThenWord("reddit.com/user/", url)
    THEN REDDIT
    ELSE IF \/ SearchLiteral("stackoverflow.com/questions", url)
            \/ SearchLiteral("stackoverflow.com/search", url)
            \/ SearchLiteral("stackoverflow.com/questions/tagged", url)
    THEN STACKOVERFLOW
    ELSE None

\* _is_feed_url without re.IGNORECASE
is_feed_urlCaseSensitive(url) ==
    \E suffix \in {"/feed", "/feed/", "/rss", "/rss/", "/atom", "/atom/", ".xml", ".rss"} :
        EndsWith(url, suffix)

\* SourceDetector._is_feed_url
is_feed_url(url) ==
    \/ SearchLiteralAtEnd("/feed", url) \/ SearchLiteralAtEnd("/feed/", url)
    \/ SearchLiteralAtEnd("/rss", url) \/ SearchLiteralAtEnd("/rss/", url)
    \/ SearchLiteralAtEnd("/atom", url) \/ SearchLiteralAtEnd("/atom/", url)
    \/ SearchLiteralAtEnd(".xml", url)
    \/ SearchLiteralAtEnd(".rss", url)

\* SourceDetector._get_content_type.  head is what requests.head gives:
\* [ok, content_type], ok false when the request raises, content_type the
\* Content-Type header of the response ("" when it has none).  The result is
\* None when the request failed.
get_content_type(head) == IF ~head.ok THEN None ELSE Lower(head.content_type)

\* SourceDetector.detect, line 81: a feed content type
is_feed_content_type(content_type) ==
    \E feed_type \in {"xml", "rss", "atom"} : Contains(content_type, feed_type)

\* the first 5 KB of a response body
SniffLength == 5000

\* _analyze_content without its try/except: a failing request leaves it as
\* an exception
analyze_contentRaises(body) ==
    IF ~body.ok THEN "RequestException"
    ELSE LET content == SubSeq(body.text, 1, Min(Len(body.text), SniffLength)) IN
         IF \E marker \in {"<rss", "<feed", "xmlns:atom",
                           "xmlns=\"http://www.w3.org/2005/Atom"} : Contains(content, marker)
         THEN RSS_FEED
         ELSE IF body.soup_feed THEN RSS_FEED
         ELSE IF \E marker \in {"__NEXT_DATA__", "vue-server-renderer", "ng-version"} :
                     Contains(content, marker)
         THEN DYNAMIC_HTML
         ELSE None

\* SourceDetector._analyze_content.  body is what requests.get gives:
\* [ok, text, soup_feed], ok false when the request raises, text the body,
\* soup_feed the answer of BeautifulSoup(content, 'xml') to find('rss') or
\* find('feed').  The result is None when there is no signal.
analyze_content(body) ==
    IF ~body.ok THEN None
    ELSE LET content == SubSeq(body.text, 1, Min(Len(body.text), SniffLength)) IN
         IF \E marker \in {"<rss", "<feed", "xmlns:atom",
                           "xmlns=\"http://www.w3.org/2005/Atom"} : Contains(content, marker)
         THEN RSS_FEED
         ELSE IF body.soup_feed THEN RSS_FEED
         ELSE IF \E marker \in {"__NEXT_DATA__", "vue-server-renderer", "ng-version"} :
                     Contains(content, marker)
         THEN DYNAMIC_HTML
         ELSE None

\* detect with the feed URL shapes tried before the platform patterns
detectFeedFirst(url, head, body) ==
    IF is_feed_url(url)
    THEN [type |-> RSS_FEED, requests |-> <<>>, steps |-> <<"feed_url">>]
    ELSE LET platform_type == check_platform_patterns(url) IN
    IF platform_type # None
    THEN [type |-> platform_type, requests |-> <<>>, steps |-> <<"feed_url", "platform">>]
    ELSE LET content_type == get_content_type(head) IN
         IF content_type # None /\ content_type # "" /\ is_feed_content_type(content_type)
         THEN [type |-> RSS_FEED, requests |-> <<"head">>,
               steps |-> <<"feed_url", "platform", "head">>]
         ELSE LET source_type == analyze_content(body) IN
              IF source_type # None
              THEN [type |-> source_type, requests |-> <<"head", "get">>,
                    steps |-> <<"feed_url", "platform", "head", "get">>]
              ELSE [type |-> STATIC_HTML, requests |-> <<"head", "get">>,
                    steps |-> <<"feed_url", "platform", "head", "get", "default">>]

\* detect giving up after a header probe without a signal: the body is never
\* fetched
detectSkipSniff(url, head, body) ==
    LET platform_type == check_platform_patterns(url) IN
    IF platform_type # None
    THEN [type |-> platform_type, requests |-> <<>>, steps |-> <<"platform">>]
    ELSE IF is_feed_url(url)
    THEN [type |-> RSS_FEED, requests |-> <<>>, steps |-> <<"platform", "feed_url">>]
    ELSE LET content_type == get_content_type(head) IN
         IF content_type # None /\ content_type # "" /\ is_feed_content_type(content_type)
         THEN [type |-> RSS_FEED, requests |-> <<"head">>,
               steps |-> <<"platform", "feed_url", "head">>]
         ELSE [type |-> STATIC_HTML, requests |-> <<"head">>,
               steps |-> <<"platform", "feed_url", "head", "default">>]

\* SourceDetector.detect(url) in a network that answers the header probe with
\* head and the body fetch with body: the type returned, the network
\* requests made, in order, and the steps of the algorithm attempted, in
\* order ("platform": _check_platform_patterns, "feed_url": _is_feed_url,
\* "head": _get_content_type, "get": _analyze_content, "default": line 91).
detect(url, head, body) ==
    LET platform_type == check_platform_patterns(url) IN
    IF platform_type # None
    THEN [type |-> platform_type, requests |-> <<>>, steps |-> <<"platform">>]
    ELSE IF is_feed_url(url)
    THEN [type |-> RSS_FEED, requests |-> <<>>, steps |-> <<"platform", "feed_url">>]
    ELSE LET content_type == get_content_type(head) IN
         IF content_type # None /\ content_type # "" /\ is_feed_content_type(content_type)
         THEN [type |-> RSS_FEED, requests |-> <<"head">>,
               steps |-> <<"platform", "feed_url", "head">>]
         ELSE LET source_type == analyze_content(body) IN
              IF source_type # None
              THEN [type |-> source_type, requests |-> <<"head", "get">>,
                    steps |-> <<"platform", "feed_url", "head", "get">>]
              ELSE [type |-> STATIC_HTML, requests |-> <<"head", "get">>,
                    steps |-> <<"platform", "feed_url", "head", "get", "default">>]

-----------------------------------------------------------------------------
(* ContentItem and the extractors: src/src/extractors *)

\* an absent datetime (published_at = None)
NoDate == [year |-> 0, month |-> 0, day |-> 0]

\* datetime.strftime("%Y-%m-%d") for a datetime d (1 <= d.year <= 9999): the
\* year as the C library writes it, without padding, then month and day in
\* two digits
strftime_ymd(d) ==
    Decimal(d.year) \o "-" \o Digit(d.month \div 10) \o Digit(d.month % 10)
        \o "-" \o Digit(d.day \div 10) \o Digit(d.day % 10)

\* BaseExtractor._create_content_item, with metadata = {'source_name': ...}
create_content_item(url, title, content, source_type, published_at, source_name) ==
    [source_url |-> url, source_type |-> source_type, title |-> title, content |-> content,
     published_at |-> published_at, source_name |-> source_name]

\* the result of an extract call: the items returned, or the exception raised
Returned(items) == [raised |-> None, items |-> items]

\* message is str() of the exception
Raised(exc, message) == [raised |-> exc, items |-> <<>>, message |-> message]

\* RSSExtractor.extract, line 60: datetime.fromtimestamp(time.mktime(
\* date_struct)) raises for a date_struct (a calendar date at midnight, its
\* year a C int) outside the range of datetime: a year above
\* datetime.MAXYEAR or below datetime.MINYEAR, and 0001-01-01, which
\* fromtimestamp takes below datetime.MINYEAR
OutOfRange(date_struct) ==
    \/ date_struct.year > 9999
    \/ date_struct.year < 1
    \/ date_struct = [year |-> 1, month |-> 1, day |-> 1]

\* str() of what the conversion raises for such a date_struct: the
\* OverflowError of time.mktime when the year less 1900 is no C int, else the
\* ValueError of fromtimestamp
fromtimestamp_error(date_struct) ==
    IF date_struct.year < 0 - 2147481748 THEN "year out of range"
    ELSE "year " \o (IF date_struct.year = 1 THEN "0" ELSE Decimal(date_struct.year))
                 \o " is out of range"

\* RSSExtractor.extract, lines 50-53: the link of one entry, made absolute;
\* in raised the str() of what urljoin raises (None when it returns).  An
\* entry is [title, link, date, summary, description, has_content, content];
\* title, link, summary and description are None when the entry lacks the
\* key, date is published_parsed or updated_parsed (NoDate when both are
\* missing), has_content is 'content' in entry, content the values of
\* entry.content.
rss_link(config, entry) ==
    LET link == IF entry.link = None THEN config.url ELSE entry.link IN
    IF link # "" /\ ~StartsWith(link, "http") THEN urljoin(config.url, link)
    ELSE [raised |-> None, value |-> link]

\* RSSExtractor.extract, lines 64-66: the summary of one entry; in raised the
\* str() of the IndexError of entry.content[0] (None when there is none)
rss_summary(entry) ==
    LET summary == IF entry.summary # None /\ entry.summary # "" THEN entry.summary
                   ELSE IF entry.description = None THEN ""
                   ELSE entry.description
    IN  IF summary = "" /\ entry.has_content
        THEN IF Len(entry.content) = 0
             THEN [raised |-> "list index out of range", value |-> ""]
             ELSE [raised |-> None, value |-> entry.content[1]]
        ELSE [raised |-> None, value |-> summary]

\* RSSExtractor.extract, lines 46-79: the body of the loop on one entry.  In
\* raised the str() of the exception it raises (None when it raises none),
\* in item the ContentItem it appends: the link is joined first, then the
\* date converted, then the summary read
rss_entry(config, entry) ==
    LET title == IF entry.title = None THEN "No Title" ELSE entry.title
        made(link, summary) ==
            IF link.raised # None THEN [raised |-> link.raised, item |-> None]
            ELSE IF entry.date # NoDate /\ OutOfRange(entry.date)
            THEN [raised |-> fromtimestamp_error(entry.date), item |-> None]
            ELSE IF summary.raised # None THEN [raised |-> summary.raised, item |-> None]
            ELSE [raised |-> None,
                  item |-> create_content_item(link.value, title, summary.value, RSS_FEED,
                                               entry.date, config.name)]
    IN  made(rss_link(config, entry), rss_summary(entry))

\* RSSExtractor.extract, lines 42-44 and 81: the entries the loop visits
rss_take(entries, max_items) ==
    SubSeq(entries, 1, Min(Len(entries), IF max_items > 0 THEN max_items ELSE 0))

\* RSSExtractor.extract.  feed is what feedparser.parse gives: [ok, error,
\* entries], ok false when parsing raises, error the str() of what it
\* raises.  The loop runs inside the try of lines 27-88: the first entry it
\* visits on which something is raised ends extract with an ExtractionError.
rss_extract(config, feed) ==
    LET loop(outcomes) ==
            LET bad == {i \in DOMAIN outcomes : outcomes[i].raised # None} IN
            IF bad # {}
            THEN Raised("ExtractionError",
                        "Failed to extract RSS: " \o outcomes[Least(bad)].raised)
            ELSE Returned([i \in DOMAIN outcomes |-> outcomes[i].item])
    IN  IF ~feed.ok THEN Raised("ExtractionError", "Failed to extract RSS: " \o feed.error)
        ELSE loop([i \in 1..Len(rss_take(feed.entries, config.max_items)) |->
                      rss_entry(config, rss_take(feed.entries, config.max_items)[i])])

\* HTMLExtractor.extract raising where it should return an empty list
html_extractRaiseOnMiss(config, page) ==
    IF ~page.ok THEN Raised("ExtractionError", "Failed to extract HTML: " \o page.error)
    ELSE IF ~page.downloaded THEN Raised("ExtractionError", "Failed to extract HTML: ")
    ELSE IF ~page.extracted THEN Raised("ExtractionError", "Failed to extract HTML: ")
    ELSE Returned(<<create_content_item(config.url, page.title, page.text, STATIC_HTML,
                                        page.date, config.name)>>)

\* HTMLExtractor.extract.  page is what trafilatura gives: [downloaded,
\* extracted, ok, error, title, text, date]: downloaded false when fetch_url
\* returns None, extracted false when extract finds no content, ok false on
\* an internal failure, error the str() of what is raised then; date is the
\* parsed 'date' (NoDate when absent or not ISO).
html_extract(config, page) ==
    IF ~page.ok THEN Raised("ExtractionError", "Failed to extract HTML: " \o page.error)
    ELSE IF ~page.downloaded THEN Returned(<<>>)
    ELSE IF ~page.extracted THEN Returned(<<>>)
    ELSE Returned(<<create_content_item(config.url, page.title, page.text, STATIC_HTML,
                                        page.date, config.name)>>)

\* the markers of a bot-challenge page, DynamicExtractor.extract line 60
is_bot_page(content_html) ==
    \/ Contains(content_html, "Checking if the site connection is secure")
    \/ Contains(content_html, "Verification")
    \/ Contains(content_html, "Access Denied")

\* DynamicExtractor.extract raising on a bot-challenge page
dynamic_extractRaiseOnBot(config, page) ==
    IF ~page.playwright THEN Raised("ExtractionError", "Playwright dependency missing.")
    ELSE IF ~page.ok
    THEN Raised("ExtractionError", "Failed to extract dynamic content: " \o page.error)
    ELSE IF \/ Contains(page.content_html, "Checking if the site connection is secure")
            \/ Contains(page.content_html, "Verification")
            \/ Contains(page.content_html, "Access Denied")
    THEN Raised("ExtractionError", "Failed to extract dynamic content: bot detection")
    ELSE IF page.content_html = "" THEN Returned(<<>>)
    ELSE IF ~page.extracted THEN Returned(<<>>)
    ELSE Returned(<<create_content_item(config.url, page.title, page.text, DYNAMIC_HTML,
                                        page.date, config.name)>>)

\* DynamicExtractor.extract.  page is what Playwright and trafilatura give:
\* [playwright, ok, error, content_html, extracted, title, text, date]:
\* playwright false when the import fails, ok false when the navigation
\* raises (a timeout included), error the str() of what it raises,
\* content_html the rendered markup.
dynamic_extract(config, page) ==
    IF ~page.playwright THEN Raised("ExtractionError", "Playwright dependency missing.")
    ELSE IF ~page.ok
    THEN Raised("ExtractionError", "Failed to extract dynamic content: " \o page.error)
    ELSE IF is_bot_page(page.content_html) THEN Returned(<<>>)
    ELSE IF page.content_html = "" THEN Returned(<<>>)
    ELSE IF ~page.extracted THEN Returned(<<>>)
    ELSE Returned(<<create_content_item(config.url, page.title, page.text, DYNAMIC_HTML,
                                        page.date, config.name)>>)

\* DynamicExtractor.extract, lines 37-72: what the call does with the
\* browser and the rendered markup, in order, up to its return or raise
dynamic_events(config, page) ==
    IF ~page.playwright THEN <<>>
    ELSE IF ~page.ok THEN <<"launch", "goto">>
    ELSE LET rendered == <<"launch", "goto">>
                 \o (IF Contains(config.url, "reddit.com")
                     THEN <<"wait_for_timeout", "wait_for_selector">> ELSE <<>>)
                 \o <<"content">>
         IN  IF is_bot_page(page.content_html) THEN rendered \o <<"close">>
             ELSE IF page.content_html = "" THEN rendered \o <<"close">>
             ELSE rendered \o <<"close", "trafilatura">>

-----------------------------------------------------------------------------
(* RateLimiter: src/src/utils/rate_limiter.py *)

\* The floats of the limiter (the readings of time.time(), the delays and
\* the durations computed from them) are exact fractions of a second,
\* [num, den] in lowest terms with den > 0.  The delays handed to the limiter
\* are whole seconds.

RECURSIVE Gcd(_, _)
Gcd(a, b) == IF b = 0 THEN a ELSE Gcd(b, a % b)

\* n / d for d > 0
Fraction(n, d) ==
    LET g == Gcd(IF n < 0 THEN 0 - n ELSE n, d) IN [num |-> n \div g, den |-> d \div g]

\* float(n)
Whole(n) == [num |-> n, den |-> 1]

\* a < b
Less(a, b) == a.num * b.den < b.num * a.den

\* a - b
Minus(a, b) == Fraction(a.num * b.den - b.num * a.den, a.den * b.den)

\* a + b
Plus(a, b) == Fraction(a.num * b.den + b.num * a.den, a.den * b.den)

\* RateLimiter.__init__: self.min_delay = 60.0 / requests_per_minute, the
\* default delay when requests_per_minute is not positive
min_delay(rpm, dd) == IF rpm > 0 THEN Fraction(60, rpm) ELSE Whole(dd)

\* RateLimiter.wait: delay = custom_delay or self.default_delay
\* (no custom delay is None, which like 0 is falsy; both are 0 here)
wait_delay(custom_delay, dd) == IF custom_delay # 0 THEN custom_delay ELSE dd

required_delayMin(md, delay) == IF Less(md, Whole(delay)) THEN md ELSE Whole(delay)

\* RateLimiter.wait: required_delay = max(self.min_delay, delay)
required_delay(md, delay) == IF Less(md, Whole(delay)) THEN Whole(delay) ELSE md

\* RateLimiter.wait: the time to sleep, 0 when the call does not sleep.
\* last is self.last_request.get(domain) (NoTime when the domain is new).
sleep_time(last, current_time, required) ==
    IF last = NoTime THEN Whole(0)
    ELSE LET elapsed == Minus(current_time, last) IN
         IF Less(elapsed, required) THEN Minus(required, elapsed) ELSE Whole(0)

\* RateLimiter._extract_domain: the netloc of the URL, the URL itself when
\* urlparse raises
extract_domain(url) ==
    LET domain(parsed) == IF parsed.raised # None THEN url ELSE parsed.netloc IN
    domain(urlparse(url, ""))

\* self.last_request.get(domain)
LastOf(lr, domain) == IF domain \in DOMAIN lr THEN lr[domain] ELSE NoTime

\* self.last_request[domain] = t
Record(lr, domain, t) ==
    [d \in (DOMAIN lr) \cup {domain} |-> IF d = domain THEN t ELSE lr[d]]

\* an empty dict
EmptyDict == [d \in {} |-> 0]

\* RateLimiter.wait(url) called by a single thread at time t, with no custom
\* delay, domain being _extract_domain(url): the dict and the clock when it
\* returns, and the time it slept.  time.sleep returns when the time asked
\* has passed.
wait_sequential(lr, t, domain, rpm, dd) ==
    LET required == required_delay(min_delay(rpm, dd), wait_delay(0, dd))
        st == sleep_time(LastOf(lr, domain), t, required)
    IN  [last_request |-> Record(lr, domain, Plus(t, st)), now |-> Plus(t, st),
         slept |-> st]

-----------------------------------------------------------------------------
(* UniversalScraper: src/src/scraper/news_scraper.py *)

\* schemes validators.url accepts
ValidSchemes == {"http", "https", "ftp"}

\* the characters of a host name
HostChars == Letters \cup Digits \cup {".", "-"}

\* validators.url(url): a well-formed absolute URL: a known scheme, "://", a
\* dotted host name (or localhost) and no whitespace
validators_url(url) ==
    LET hostname(host) ==
            /\ host # ""
            /\ \A i \in 1..Len(host) : Char(host, i) \in HostChars
            /\ Contains(host, ".") \/ host = "localhost"
            /\ ~StartsWith(host, ".") /\ ~EndsWith(host, ".")
        accepted(parsed) == parsed.scheme \in ValidSchemes /\ hostname(parsed.netloc)
    IN  /\ SchemeEnd(url) > 0
        /\ Positions(url, Whitespace) = {}
        /\ accepted(urlsplit(url, ""))

\* the rewrite rules with the Reddit rule appending ".rss" to the URL as it
\* is, trailing slash included
rewriteKeepSlash(url) ==
    IF Contains(url, "reddit.com/r/") \/ Contains(url, "reddit.com/user/")
    THEN IF ~EndsWith(url, ".rss") /\ ~Contains(url, "/comments/")
         THEN [url |-> url \o ".rss", source_type |-> RSS_FEED, detect |-> FALSE]
         ELSE IF Contains(url, "/comments/")
         THEN [url |-> url, source_type |-> REDDIT, detect |-> FALSE]
         ELSE [url |-> url, source_type |-> None, detect |-> FALSE]
    ELSE IF Contains(url, "stackoverflow.com")
    THEN IF Contains(url, "/questions") /\ ~EndsWith(url, ".rss")
         THEN [url |-> "https://stackoverflow.com/feeds", source_type |-> RSS_FEED,
               detect |-> FALSE]
         ELSE [url |-> url, source_type |-> None, detect |-> FALSE]
    ELSE [url |-> url, source_type |-> None, detect |-> TRUE]

\* the rewrite rules without the StackOverflow rule: a StackOverflow URL is
\* left to the detector
rewriteNoStackOverflow(url) ==
    IF Contains(url, "reddit.com/r/") \/ Contains(url, "reddit.com/user/")
    THEN IF ~EndsWith(url, ".rss") /\ ~Contains(url, "/comments/")
         THEN [url |-> RStripSlash(Strip(url)) \o ".rss", source_type |-> RSS_FEED,
               detect |-> FALSE]
         ELSE IF Contains(url, "/comments/")
         THEN [url |-> url, source_type |-> REDDIT, detect |-> FALSE]
         ELSE [url |-> url, source_type |-> None, detect |-> FALSE]
    ELSE [url |-> url, source_type |-> None, detect |-> TRUE]

\* scrape_url, lines 61-83: the platform rewrite rules.  The result is the
\* effective URL, the source type the rules force (None when they force none)
\* and whether the detector is asked.
rewrite(url) ==
    IF Contains(url, "reddit.com/r/") \/ Contains(url, "reddit.com/user/")
    THEN IF ~EndsWith(url, ".rss") /\ ~Contains(url, "/comments/")
         THEN [url |-> RStripSlash(Strip(url)) \o ".rss", source_type |-> RSS_FEED,
               detect |-> FALSE]
         ELSE IF Contains(url, "/comments/")
         THEN [url |-> url, source_type |-> REDDIT, detect |-> FALSE]
         ELSE [url |-> url, source_type |-> None, detect |-> FALSE]
    ELSE IF Contains(url, "stackoverflow.com")
    THEN IF Contains(url, "/questions") /\ ~EndsWith(url, ".rss")
         THEN [url |-> "https://stackoverflow.com/feeds", source_type |-> RSS_FEED,
               detect |-> FALSE]
         ELSE [url |-> url, source_type |-> None, detect |-> FALSE]
    ELSE [url |-> url, source_type |-> None, detect |-> TRUE]

\* __init__, lines 34-42, and scrape_url, line 95:
\* self.extractors.get(source_type, self.fallback_extractor)
extractor_for(source_type) ==
    IF source_type \in {RSS_FEED, ATOM_FEED} THEN "RSSExtractor"
    ELSE IF source_type = STATIC_HTML THEN "HTMLExtractor"
    ELSE IF source_type \in {DYNAMIC_HTML, REDDIT, STACKOVERFLOW} THEN "DynamicExtractor"
    ELSE "HTMLExtractor"

\* extractor.extract(config), line 96
extract(extractor, config, page) ==
    IF extractor = "RSSExtractor" THEN rss_extract(config, page)
    ELSE IF extractor = "DynamicExtractor" THEN dynamic_extract(config, page)
    ELSE html_extract(config, page)

\* scrape_url, lines 101-112: the record of one item
normalize(item, name, source_type, url, today) ==
    LET date_val == IF item.published_at # NoDate THEN item.published_at ELSE today
        source_name == IF name # "" THEN name ELSE item.source_name
    IN  [title |-> item.title, link |-> item.source_url, content |-> item.content,
         date |-> strftime_ymd(date_val),
         source |-> IF source_name = "" \/ source_name = source_type
                    THEN get_domain_name(url) ELSE source_name]

\* scrape_url with the detector asked before the URL is validated
scrape_prepareDetectFirst(url, limit, head, body) ==
    LET prepared(det) ==
            IF ~validators_url(url)
            THEN [valid |-> FALSE, raised |-> None, url |-> url, source_type |-> None,
                  events |-> <<"detect">> \o det.requests]
            ELSE [valid |-> TRUE, raised |-> SourceConfig_post_init(url, limit),
                  url |-> url, source_type |-> det.type,
                  events |-> <<"detect">> \o det.requests]
    IN  prepared(detect(url, head, body))

\* scrape_url, lines 56-88: validation, rewrite, detection and the
\* construction of the SourceConfig, in a network that answers the detector
\* with head and body.  events lists what the call did, in order.
scrape_prepare(url, limit, head, body) ==
    LET configured(eff_url, source_type, events) ==
            [valid |-> TRUE,
             raised |-> IF source_type = None THEN "UnboundLocalError"
                        ELSE SourceConfig_post_init(eff_url, limit),
             url |-> eff_url, source_type |-> source_type, events |-> events]
        detected(eff_url, det) ==
            configured(eff_url, det.type, <<"detect">> \o det.requests)
        rewritten(rw) ==
            IF rw.detect THEN detected(rw.url, detect(rw.url, head, body))
            ELSE configured(rw.url, rw.source_type, <<>>)
    IN  IF ~validators_url(url)
        THEN [valid |-> FALSE, raised |-> None, url |-> url, source_type |-> None,
              events |-> <<>>]
        ELSE rewritten(rewrite(url))

\* the record of a call that has not happened
NoCall == [url |-> "", limit |-> 0, name |-> "", valid |-> FALSE, raised |-> None,
           result |-> <<>>, events |-> <<>>, eff_url |-> "", source_type |-> None,
           extractor |-> None, wait_host |-> None, extract_raised |-> None,
           items |-> <<>>]

\* scrape_url, lines 88-118, after a preparation pre that raised nothing:
\* the rate limiter wait (on the domain wait_host), the extraction answered
\* with page, and the conversion of the items
scrape_extract(call, pre, limit, name, page, today) ==
    LET config == [url |-> pre.url, name |-> IF name # "" THEN name ELSE pre.url,
                   max_items |-> limit, source_type |-> pre.source_type]
        extracted(ex, wait_host) ==
            [call EXCEPT !.events = pre.events \o <<"wait", "extract">>,
                         !.extractor = extractor_for(pre.source_type),
                         !.wait_host = wait_host,
                         !.extract_raised = ex.raised,
                         !.items = ex.items,
                         !.result =
                             IF ex.raised # None THEN <<>>
                             ELSE [i \in 1..Len(ex.items) |->
                                      normalize(ex.items[i], name, pre.source_type,
                                                pre.url, today)]]
    IN  extracted(extract(extractor_for(pre.source_type), config, page),
                  extract_domain(pre.url))

\* scrape_url(url, limit, name) after its preparation pre: the record of the
\* call, what it returned or raised and what it did
scrape_call(pre, url, limit, name, page, today) ==
    LET call == [NoCall EXCEPT !.url = url, !.limit = limit, !.name = name,
                               !.valid = pre.valid, !.events = pre.events,
                               !.eff_url = pre.url, !.source_type = pre.source_type]
    IN  IF ~pre.valid THEN call
        ELSE IF pre.raised # None THEN [call EXCEPT !.raised = pre.raised]
        ELSE scrape_extract(call, pre, limit, name, page, today)

\* the effect of a call on the limiter and the clock: the call waited at time
\* t if it got as far as the rate limiter, and its extraction took `took`
\* seconds
limiter_after(call, took, lr, t, rpm, dd) ==
    IF call.wait_host = None THEN [last_request |-> lr, now |-> t]
    ELSE LET w == wait_sequential(lr, t, call.wait_host, rpm, dd) IN
         [last_request |-> w.last_request, now |-> Plus(w.now, Whole(took))]

\* scrape_url(url, limit, name), called at time t with the limiter's dict lr,
\* in a network that answers the detector with head and body and the
\* extractor with page
scrape_url(url, limit, name, head, body, page, took, today, lr, t, rpm, dd) ==
    LET ended(call, after) ==
            [call |-> call, last_request |-> after.last_request, now |-> after.now]
        called(call) == ended(call, limiter_after(call, took, lr, t, rpm, dd))
    IN  called(scrape_call(scrape_prepare(url, limit, head, body), url, limit, name,
                           page, today))

-----------------------------------------------------------------------------
(* State. *)

VARIABLES
    \* RateLimiter fields
    requests_per_minute,   \* self.requests_per_minute
    default_delay,         \* self.default_delay
    last_request,          \* self.last_request: domain -> time of the last grant
    lock,                  \* self.lock: the thread holding it, 0 when free
    now,                   \* time.time(), in seconds (a fraction)
    \* concurrent callers of RateLimiter.wait
    pc,                    \* per thread: "idle", "acquire" or "sleeping"
    frame,                 \* per thread: the arguments and locals of its wait call
    granted,               \* history: the wait call that returned last
    \* a caller of UniversalScraper
    driver,                \* "scrape_all", or "scrape_url" for direct calls
    urls,                  \* the URLs the caller works through
    arg_limit,             \* the limit argument of the caller
    arg_name,              \* the name argument ("" when not supplied)
    idx,                   \* the position in urls of the next URL
    dpc,                   \* the caller: "loop", "returned" or "raised"
    all_results,           \* scrape_all: all_results
    last_call,             \* history: the scrape_url call that ended last
    \* a direct caller of one component (the detector, an extractor)
    unit,                  \* history: the direct call that ended last
    \* main: the per-URL loop of src/main.py
    news_data_raw,         \* main: the rows collected
    failed_urls,           \* main: the URLs recorded as failed
    main_log               \* history: the scrape_url call of every iteration

limiterVars == <<requests_per_minute, default_delay, last_request, lock, now>>

threadVars == <<pc, frame, granted>>

scraperVars == <<driver, urls, arg_limit, arg_name, idx, dpc, all_results, last_call>>

mainVars == <<news_data_raw, failed_urls, main_log>>

vars == <<requests_per_minute, default_delay, last_request, lock, now,
          pc, frame, granted, driver, urls, arg_limit, arg_name, idx, dpc, all_results, last_call,
          unit, news_data_raw, failed_urls, main_log>>

-----------------------------------------------------------------------------
(* Concurrent callers of one RateLimiter. *)

\* no wait call starts from MaxTime seconds on, and the clock stops there
\* unless a thread is asleep
MaxTime == 3

\* the number of threads sharing the limiter
NumThreads == 2

Threads == 1..NumThreads

\* URLs handed to wait: two on one host, the second after a space that
\* urlparse drops, and one on another host
LimiterUrls == {"https://example.com/a", " https://example.com/b",
                "https://reddit.com/r/test.rss"}

\* requests_per_minute values the limiter is constructed with
RateChoices == {0, 24, 60}

\* the default of the default_delay parameter of RateLimiter.__init__
DefaultDelay == 2

\* custom_delay arguments: 0 stands for the default None
CustomDelays == {0, 4}

NoFrame == [domain |-> "", custom_delay |-> 0, current_time |-> Whole(0),
            sleep_time |-> Whole(0)]

NoGrant == [host |-> None, time |-> NoTime, prev |-> NoTime, elapsed |-> NoTime,
            slept |-> Whole(0), custom_delay |-> 0]

\* no direct call of a component has happened
NoUnit == [fn |-> "none"]

InitLimiter ==
    /\ requests_per_minute \in RateChoices
    /\ default_delay = DefaultDelay
    /\ last_request = EmptyDict
    /\ lock = 0
    /\ now = Whole(0)
    /\ pc = [t \in Threads |-> "idle"]
    /\ frame = [t \in Threads |-> NoFrame]
    /\ granted = NoGrant
    /\ driver = "none"
    /\ urls = <<>>
    /\ arg_limit = 0
    /\ arg_name = ""
    /\ idx = 1
    /\ dpc = "returned"
    /\ all_results = <<>>
    /\ last_call = NoCall
    /\ unit = NoUnit
    /\ news_data_raw = <<>>
    /\ failed_urls = <<>>
    /\ main_log = <<>>

\* wait, lines 43-44: the thread enters wait(url, custom_delay) and reaches
\* `with self.lock`.
Call(t, url, cd) ==
    /\ pc[t] = "idle"
    /\ Less(now, Whole(MaxTime))
    /\ pc' = [pc EXCEPT ![t] = "acquire"]
    /\ frame' = [frame EXCEPT ![t] = [NoFrame EXCEPT !.domain = extract_domain(url),
                                                     !.custom_delay = cd]]
    /\ UNCHANGED <<limiterVars, granted, scraperVars, unit, mainVars>>

\* the record a returning wait call leaves in the history: the domain, the
\* time it records, the time recorded for the domain before, and what the
\* call measured (elapsed) and asked time.sleep for (slept)
Grant(f, time) ==
    LET prev == LastOf(last_request, f.domain)
    IN  [host |-> f.domain, time |-> time, prev |-> prev,
         elapsed |-> IF prev = NoTime THEN NoTime ELSE Minus(f.current_time, prev),
         slept |-> f.sleep_time, custom_delay |-> f.custom_delay]

\* wait, lines 46-59: the thread takes the lock and reads the clock.  When it
\* need not sleep it records the grant and releases the lock; otherwise it
\* starts time.sleep(sleep_time) with the lock held.
Acquire(t) ==
    /\ pc[t] = "acquire"
    /\ lock = 0
    /\ LET f == frame[t]
           domain == f.domain
           required == required_delay(min_delay(requests_per_minute, default_delay),
                                      wait_delay(f.custom_delay, default_delay))
           st == sleep_time(LastOf(last_request, domain), now, required)
           g == [f EXCEPT !.current_time = now, !.sleep_time = st]
       IN  IF Less(Whole(0), st)
           THEN /\ lock' = t
                /\ pc' = [pc EXCEPT ![t] = "sleeping"]
                /\ frame' = [frame EXCEPT ![t] = g]
                /\ UNCHANGED <<last_request, granted>>
           ELSE /\ last_request' = Record(last_request, domain, now)
                /\ granted' = Grant(g, now)
                /\ pc' = [pc EXCEPT ![t] = "idle"]
                /\ frame' = [frame EXCEPT ![t] = NoFrame]
                /\ lock' = 0
    /\ UNCHANGED <<requests_per_minute, default_delay, now, scraperVars, unit, mainVars>>

\* wait, line 56: the time at which time.sleep(sleep_time) may return
Due(f) == Plus(f.current_time, f.sleep_time)

\* wait, lines 56-59: time.sleep returns (no earlier than asked), the thread
\* reads the clock again, records the grant and releases the lock.
Wake(t) ==
    /\ pc[t] = "sleeping"
    /\ lock = t
    /\ ~Less(now, Due(frame[t]))
    /\ last_request' = Record(last_request, frame[t].domain, now)
    /\ granted' = Grant(frame[t], now)
    /\ pc' = [pc EXCEPT ![t] = "idle"]
    /\ frame' = [frame EXCEPT ![t] = NoFrame]
    /\ lock' = 0
    /\ UNCHANGED <<requests_per_minute, default_delay, now, scraperVars, unit, mainVars>>

\* RateLimiter.reset
Reset ==
    /\ lock = 0
    /\ last_request # EmptyDict
    /\ last_request' = EmptyDict
    /\ UNCHANGED <<requests_per_minute, default_delay, lock, now, threadVars, scraperVars, unit, mainVars>>

\* time passes, up to the instant the clock is looked at next: the next
\* whole second, or the time the time.sleep of a thread is due when that
\* comes first
Tick ==
    LET asleep == {t \in Threads : pc[t] = "sleeping" /\ Less(now, Due(frame[t]))}
        first(times) == CHOOSE d \in times : \A e \in times : ~Less(e, d)
    IN  /\ Less(now, Whole(MaxTime)) \/ asleep # {}
        /\ now' = first({Due(frame[t]) : t \in asleep}
                        \cup {Whole(now.num \div now.den + 1)})
    /\ UNCHANGED <<unit, mainVars, requests_per_minute, default_delay, last_request, lock, threadVars,
                   scraperVars>>

NextLimiter ==
    \/ \E t \in Threads, url \in LimiterUrls, cd \in CustomDelays : Call(t, url, cd)
    \/ \E t \in Threads : Acquire(t)
    \/ \E t \in Threads : Wake(t)
    \/ Reset
    \/ Tick

SpecLimiter == InitLimiter /\ [][NextLimiter]_vars

-----------------------------------------------------------------------------
(* A caller of UniversalScraper: scrape_all over a list of URLs, or direct
   calls of scrape_url one after another. *)

\* the longest list of URLs
MaxUrls == 2

\* requests_per_minute of the limiter UniversalScraper.__init__ constructs
ScraperRate == 20

InputUrls ==
    {"https://example.com/page",
     "https://www.example.com/feed/",
     "https://reddit.com/r/test/",
     "https://reddit.com/r/test.rss",
     "https://www.reddit.com/r/test/comments/abc/",
     "https://stackoverflow.com/questions",
     "https://stackoverflow.com/tags",
     "ftp://example.com/file",
     "not a url",
     "  "}

Limits == {0, 1, 2}

Names == {"", "My Feed", REDDIT}

\* datetime.now()
Today == [year |-> 2026, month |-> 1, day |-> 5]

\* answers of the network to the detector's header probe
Heads ==
    {[ok |-> FALSE, content_type |-> ""],
     [ok |-> TRUE, content_type |-> "text/html; charset=UTF-8"],
     [ok |-> TRUE, content_type |-> "Application/RSS+XML"]}

\* answers of the network to the detector's body fetch
Bodies ==
    {[ok |-> FALSE, text |-> "", soup_feed |-> FALSE],
     [ok |-> TRUE, text |-> "<html><body>news</body></html>", soup_feed |-> FALSE],
     [ok |-> TRUE, text |-> "<?xml version=\"1.0\"?><rss version=\"2.0\">", soup_feed |-> TRUE],
     [ok |-> TRUE, text |-> "<html><script id=\"__NEXT_DATA__\">", soup_feed |-> FALSE]}

Entry1 == [title |-> "Example", link |-> "https://example.com/p/1",
           date |-> [year |-> 2025, month |-> 12, day |-> 31], summary |-> "Hello world",
           description |-> None, has_content |-> FALSE, content |-> <<>>]

Entry2 == [title |-> None, link |-> "/p/2", date |-> NoDate, summary |-> "",
           description |-> None, has_content |-> FALSE, content |-> <<>>]

\* an entry dated 0001-01-01T00:00:00Z, which feedparser parses into a
\* struct_time of the year 1
Entry3 == [title |-> "Launch", link |-> "https://example.com/p/3",
           date |-> [year |-> 1, month |-> 1, day |-> 1], summary |-> "Soon",
           description |-> None, has_content |-> FALSE, content |-> <<>>]

\* what the fetch and parse of a page can give; every extractor reads the
\* fields it uses
NoPage == [ok |-> TRUE, error |-> "", entries |-> <<>>, downloaded |-> TRUE,
           extracted |-> TRUE, playwright |-> TRUE, content_html |-> "<html>Example</html>",
           title |-> "Example", text |-> "Hello world", date |-> NoDate]

\* an entry of the year 999 with a relative link and a description in place
\* of the summary
Entry4 == [title |-> "Chronicle", link |-> "p/4",
           date |-> [year |-> 999, month |-> 12, day |-> 31], summary |-> None,
           description |-> "Long ago", has_content |-> FALSE, content |-> <<>>]

\* an entry without link and summary, with a content element
Entry5 == [title |-> "Body only", link |-> None,
           date |-> [year |-> 2026, month |-> 1, day |-> 4], summary |-> "",
           description |-> None, has_content |-> TRUE, content |-> <<"<p>Body</p>">>]

\* an entry whose link names a host in brackets that is no IP address
Entry6 == [title |-> "Mirror", link |-> "//[cdn]/p/6",
           date |-> [year |-> 2026, month |-> 1, day |-> 3], summary |-> "Copy",
           description |-> None, has_content |-> FALSE, content |-> <<>>]

FeedPages ==
    {[NoPage EXCEPT !.ok = FALSE, !.error = "'NoneType' object has no attribute 'value'"],
     NoPage,
     [NoPage EXCEPT !.entries = <<Entry1, Entry2>>],
     [NoPage EXCEPT !.entries = <<Entry4, Entry5>>]}

HtmlPages ==
    {[NoPage EXCEPT !.ok = FALSE, !.error = "Expecting value: line 1 column 1 (char 0)"],
     [NoPage EXCEPT !.downloaded = FALSE],
     [NoPage EXCEPT !.extracted = FALSE],
     NoPage}

DynamicPages ==
    {[NoPage EXCEPT !.playwright = FALSE],
     [NoPage EXCEPT !.ok = FALSE, !.error = "Page.goto: Timeout 30000ms exceeded."],
     [NoPage EXCEPT !.content_html = "<html>Verification required</html>"],
     [NoPage EXCEPT !.content_html = ""],
     [NoPage EXCEPT !.extracted = FALSE],
     [NoPage EXCEPT !.date = [year |-> 2025, month |-> 3, day |-> 9]]}

PagesFor(extractor) ==
    IF extractor = "RSSExtractor" THEN FeedPages
    ELSE IF extractor = "DynamicExtractor" THEN DynamicPages
    ELSE HtmlPages

\* seconds an extraction can take
Pauses == {0, 3}

\* the lists of at most n input URLs
RECURSIVE UrlLists(_)
UrlLists(n) ==
    IF n = 0 THEN {<<>>}
    ELSE LET shorter == UrlLists(n - 1) IN
         shorter \cup {Append(l, u) : l \in {x \in shorter : Len(x) = n - 1}, u \in InputUrls}

InputLists == UrlLists(MaxUrls)

Init ==
    /\ requests_per_minute = ScraperRate
    /\ default_delay = DefaultDelay
    /\ last_request = EmptyDict
    /\ lock = 0
    /\ now = Whole(0)
    /\ pc = [t \in Threads |-> "idle"]
    /\ frame = [t \in Threads |-> NoFrame]
    /\ granted = NoGrant
    /\ driver \in {"scrape_all", "scrape_url"}
    /\ urls \in InputLists
    /\ arg_limit \in Limits
    /\ arg_name \in (IF driver = "scrape_all" THEN {""} ELSE Names)
    /\ idx = 1
    /\ dpc = "loop"
    /\ all_results = <<>>
    /\ last_call = NoCall
    /\ unit = NoUnit
    /\ news_data_raw = <<>>
    /\ failed_urls = <<>>
    /\ main_log = <<>>

\* str.encode('punycode') (RFC 3492, 6.3): the number of digits written for
\* the number q, k being the position of the first
RECURSIVE punycode_digits(_, _, _)
punycode_digits(q, k, bias) ==
    LET t == IF k <= bias THEN 1 ELSE IF k >= bias + 26 THEN 26 ELSE k - bias IN
    IF q < t THEN 1 ELSE 1 + punycode_digits((q - t) \div (36 - t), k + 36, bias)

\* str.encode('punycode'): one pass over the code points codes[i..] for the
\* code point n, b of the code points being ASCII.  st is [delta, h, bias,
\* out], out the number of digits written so far.
RECURSIVE punycode_pass(_, _, _, _, _)
punycode_pass(codes, i, n, b, st) ==
    LET scaled(d, k) == k + (36 * d) \div (d + 38)
        reduced(d) ==
            IF d <= 455 THEN scaled(d, 0)
            ELSE IF d \div 35 <= 455 THEN scaled(d \div 35, 36)
            ELSE IF d \div 1225 <= 455 THEN scaled(d \div 1225, 72)
            ELSE IF d \div 42875 <= 455 THEN scaled(d \div 42875, 108)
            ELSE IF d \div 1500625 <= 455 THEN scaled(d \div 1500625, 144)
            ELSE scaled(d \div 52521875, 180)
        spread(d, numpoints) == reduced(d + d \div numpoints)
        adapt(delta, numpoints, first) ==
            spread(IF first THEN delta \div 700 ELSE delta \div 2, numpoints)
    IN  IF i > Len(codes) THEN st
        ELSE IF codes[i] < n
        THEN punycode_pass(codes, i + 1, n, b, [st EXCEPT !.delta = @ + 1])
        ELSE IF codes[i] = n
        THEN punycode_pass(codes, i + 1, n, b,
                           [delta |-> 0, h |-> st.h + 1,
                            bias |-> adapt(st.delta, st.h + 1, st.h = b),
                            out |-> st.out + punycode_digits(st.delta, 36, st.bias)])
        ELSE punycode_pass(codes, i + 1, n, b, st)

\* str.encode('punycode'): the digits written for the code points of codes
\* from n on, the smallest first
RECURSIVE punycode_points(_, _, _, _)
punycode_points(codes, n, b, st) ==
    LET bumped(after) == [after EXCEPT !.delta = @ + 1]
        from(m) ==
            punycode_points(codes, m + 1, b,
                bumped(punycode_pass(codes, 1, m, b,
                                     [st EXCEPT !.delta = @ + (m - n) * (st.h + 1)])))
    IN  IF st.h = Len(codes) THEN st.out
        ELSE from(Least({codes[i] : i \in 1..Len(codes)} \cap (n..255)))

\* urllib3.util.parse_url, PreparedRequest.prepare_url and, for a host in
\* brackets, PreparedRequest.prepare_cookies: the text after the user
\* information of the authority is a host requests accepts, with an optional
\* port.
host_port_accepted(host_port) ==
    LET hex == Digits \cup CharsOf((65..70) \cup (97..102))
        unreserved == Letters \cup Digits \cup {".", "_", "-", "~"}
        \* (?:[cs]|%[a-fA-F0-9]{2})*
        encoded(x, cs) ==
            \A i \in 1..Len(x) :
                IF Char(x, i) = "%"
                THEN i + 2 <= Len(x) /\ Char(x, i + 1) \in hex /\ Char(x, i + 2) \in hex
                ELSE Char(x, i) \in cs
        chopped(x) == IF EndsWith(x, "\n") THEN SubSeq(x, 1, Len(x) - 1) ELSE x
        digit(x, k) == IF k > Len(x) THEN 0 ELSE Ord(Char(x, Len(x) + 1 - k)) - 48
        significant(x) ==
            IF Positions(x, Digits \ {"0"}) = {} THEN ""
            ELSE From(x, Least(Positions(x, Digits \ {"0"})))
        in_range(x) ==
            /\ Len(x) <= 5
            /\ digit(x, 1) + 10 * digit(x, 2) + 100 * digit(x, 3) + 1000 * digit(x, 4)
                   + 10000 * digit(x, 5) <= 65535
        \* (?::0*?(|0|[1-9][0-9]{0,4}))?$ and 0 <= port <= 65535
        port(x) ==
            \/ x = ""
            \/ x = "\n"
            \/ /\ StartsWith(x, ":")
               /\ Positions(chopped(From(x, 2)), Digits) = 1..Len(chopped(From(x, 2)))
               /\ in_range(significant(chopped(From(x, 2))))
        \* IPV4_PAT
        ipv4(x) ==
            LET four(parts) ==
                    /\ Len(parts) = 4
                    /\ \A k \in 1..4 : /\ Len(parts[k]) \in 1..3
                                       /\ Positions(parts[k], Digits) = 1..Len(parts[k])
            IN  four(Split(x, "."))
        h16(x) == Len(x) \in 1..4 /\ Positions(x, hex) = 1..Len(x)
        pieces(x) == IF x = "" THEN <<>> ELSE Split(x, ":")
        wellformed(parts, tail) ==
            \A k \in 1..Len(parts) : h16(parts[k]) \/ (tail /\ k = Len(parts) /\ ipv4(parts[k]))
        size(parts) ==
            Len(parts) + IF Len(parts) > 0 /\ ~h16(parts[Len(parts)]) THEN 1 ELSE 0
        compressed(before, after) ==
            /\ wellformed(before, FALSE)
            /\ wellformed(after, TRUE)
            /\ size(before) + size(after) <= 7
        full(parts) == wellformed(parts, TRUE) /\ size(parts) = 8
        doubles(x) == {i \in 1..Len(x) - 1 : SubSeq(x, i, i + 1) = "::"}
        \* IPV6_PAT
        ipv6(x) ==
            IF doubles(x) = {} THEN full(pieces(x))
            ELSE compressed(pieces(SubSeq(x, 1, Least(doubles(x)) - 1)),
                            pieces(From(x, Least(doubles(x)) + 2)))
        \* ZONE_ID_PAT, when there is one
        zone(x) == x = "" \/ (Len(x) >= 2 /\ encoded(From(x, 2), unreserved))
        addrz(x) ==
            IF Positions(x, {"%"}) = {} THEN ipv6(x)
            ELSE /\ ipv6(SubSeq(x, 1, Least(Positions(x, {"%"})) - 1))
                 /\ zone(From(x, Least(Positions(x, {"%"}))))
        \* _normalize_host: the zone z as '%' and its identifier, without the
        \* '25' of a leading '%25', the escapes in upper case
        rezoned(id) ==
            "%" \o Join([i \in 1..Len(id) |->
                            IF /\ Char(id, i) \in CharsOf(97..102)
                               /\ \/ (i > 1 /\ Char(id, i - 1) = "%")
                                  \/ (i > 2 /\ Char(id, i - 2) = "%")
                            THEN Chr(Ord(Char(id, i)) - 32)
                            ELSE Char(id, i)], "")
        normalized(z) ==
            rezoned(IF StartsWith(z, "%25") /\ z # "%25" THEN From(z, 4) ELSE From(z, 2))
        \* requests.utils.unquote_unreserved: a '%' of z before two
        \* alphanumeric characters, and the number they are read as
        escape(z, i) ==
            /\ Char(z, i) = "%"
            /\ i + 2 <= Len(z)
            /\ Char(z, i + 1) \in Letters \cup Digits
            /\ Char(z, i + 2) \in Letters \cup Digits
        nibble(c) == Least(Positions("0123456789abcdef", {Lower(c)})) - 1
        byte(z, i) == 16 * nibble(Char(z, i + 1)) + nibble(Char(z, i + 2))
        unquoted(z, i) ==
            /\ escape(z, i)
            /\ byte(z, i) \in 1..127
            /\ Chr(byte(z, i)) \in unreserved
        \* requests.utils.requote_uri on the zone: escapes of unreserved
        \* characters are decoded; when an escape is no hexadecimal number,
        \* every '%' is quoted instead
        requoted(z) ==
            IF \E i \in 1..Len(z) :
                   escape(z, i) /\ ~(Char(z, i + 1) \in hex /\ Char(z, i + 2) \in hex)
            THEN Join([i \in 1..Len(z) |->
                          IF Char(z, i) = "%" THEN "%25" ELSE Char(z, i)], "")
            ELSE Join([i \in 1..Len(z) |->
                          IF unquoted(z, i) THEN Chr(byte(z, i))
                          ELSE IF \/ (i > 1 /\ unquoted(z, i - 1))
                                  \/ (i > 2 /\ unquoted(z, i - 2))
                          THEN ""
                          ELSE Char(z, i)], "")
        \* the host between the brackets of the prepared URL
        prepared_host(x) ==
            IF Positions(x, {"%"}) = {} THEN Lower(x)
            ELSE Lower(SubSeq(x, 1, Least(Positions(x, {"%"})) - 1))
                     \o requoted(normalized(From(x, Least(Positions(x, {"%"})))))
        \* IPV6_ADDRZ_PAT and the port, then urlparse of the prepared URL in
        \* MockRequest.__init__ (PreparedRequest.prepare_cookies)
        bracketed(x) ==
            /\ Positions(x, {"]"}) # {}
            /\ addrz(SubSeq(x, 2, Least(Positions(x, {"]"})) - 1))
            /\ port(From(x, Least(Positions(x, {"]"})) + 1))
            /\ check_bracketed_host(
                   prepared_host(SubSeq(x, 2, Least(Positions(x, {"]"})) - 1))) = None
        \* len(b'xn--' + label.encode('punycode'))
        alabel(codes, b) ==
            4 + b + (IF b > 0 THEN 1 ELSE 0)
              + punycode_points(codes, 128, b, [delta |-> 0, h |-> b, bias |-> 72, out |-> 0])
        \* idna.encode(label.lower(), strict=True, std3_rules=True) of a label
        \* with a character outside ASCII
        idna(label) ==
            /\ \A i \in 1..Len(label) :
                   \/ Char(label, i) \in CharsOf((97..122) \cup (48..57) \cup {45}
                                                 \cup (223..246) \cup (248..255))
                   \/ /\ Char(label, i) = Chr(183)
                      /\ 1 < i /\ i < Len(label)
                      /\ Char(label, i - 1) = "l" /\ Char(label, i + 1) = "l"
            /\ ~StartsWith(label, "-") /\ ~EndsWith(label, "-")
            /\ ~(Len(label) >= 4 /\ SubSeq(label, 3, 4) = "--")
            /\ Len(label) <= 59
            /\ alabel([i \in 1..Len(label) |-> Ord(Char(label, i))],
                      Cardinality(Positions(label, CharsOf(1..127)))) <= 63
        labels(parts) ==
            \A k \in 1..Len(parts) :
                Positions(parts[k], CharsOf(128..255)) # {} => idna(Lower(parts[k]))
        \* REG_NAME_PAT, _normalize_host and the checks of prepare_url
        named(host) ==
            /\ host # ""
            /\ encoded(host, CharsOf(1..255) \ {"[", "]", "%", ":", "/", "?", "#"})
            /\ labels(Split(host, "."))
            /\ ~StartsWith(host, "*") /\ ~StartsWith(host, ".")
    IN  IF StartsWith(host_port, "[") THEN bracketed(host_port)
        ELSE IF Positions(host_port, {":"}) = {} THEN named(host_port)
        ELSE /\ named(SubSeq(host_port, 1, Least(Positions(host_port, {":"})) - 1))
             /\ port(From(host_port, Least(Positions(host_port, {":"}))))

\* requests.head(url) and requests.get(url) send a request: the URL passes
\* PreparedRequest.prepare_url, urlparse accepts the prepared URL in
\* PreparedRequest.prepare_cookies and Session.get_adapter finds the http or
\* https adapter for it
Fetchable(url) ==
    LET authority(rest) ==
            IF Positions(rest, {"\\", "/", "?", "#"}) = {} THEN rest
            ELSE SubSeq(rest, 1, Least(Positions(rest, {"\\", "/", "?", "#"})) - 1)
        host_port(auth) ==
            IF Positions(auth, {"@"}) = {} THEN auth
            ELSE From(auth, Greatest(Positions(auth, {"@"})) + 1)
        after_scheme(rest) ==
            StartsWith(rest, "//") /\ host_port_accepted(host_port(authority(From(rest, 3))))
        prepared(stripped) ==
            IF StartsWith(Lower(stripped), "http:") THEN after_scheme(From(stripped, 6))
            ELSE IF StartsWith(Lower(stripped), "https:") THEN after_scheme(From(stripped, 7))
            ELSE FALSE
    IN  prepared(LStripSpace(url))

\* the calls of scrape_url(url, limit, name) that the answers of the network
\* allow; the detector's requests for a URL requests cannot fetch fail
CallsOf(url, lim, nm) ==
    LET answers(target) ==
            {a \in Heads \X Bodies : ~Fetchable(target) => (~a[1].ok /\ ~a[2].ok)}
        pres == {scrape_prepare(url, lim, a[1], a[2]) : a \in answers(rewrite(url).url)}
    IN  UNION {{scrape_call(pre, url, lim, nm, page, Today) :
                   page \in PagesFor(extractor_for(pre.source_type))} : pre \in pres}

\* the function with domain keys that maps <<url, limit, name>> to
\* CallsOf(url, limit, name), as an explicit table
RECURSIVE CallTable(_)
CallTable(keys) ==
    IF keys = {} THEN <<>>
    ELSE LET k == CHOOSE x \in keys : TRUE IN
         (k :> CallsOf(k[1], k[2], k[3])) @@ CallTable(keys \ {k})

\* scrape_url over the inputs of the model (evaluated once)
Calls == CallTable(InputUrls \X Limits \X Names)

\* the outcomes of scrape_url(url, limit, name) in the current state
Outcomes(url, lim, nm) ==
    {LET after == limiter_after(call, took, last_request, now, requests_per_minute,
                                default_delay)
     IN  [call |-> call, last_request |-> after.last_request, now |-> after.now] :
         call \in Calls[<<url, lim, nm>>], took \in Pauses}

\* the results of a URL put in front of those collected before
extendFront(list, results) == results \o list

\* scrape_all, line 125: all_results.extend(results)
extend(list, results) == list \o results

\* scrape_all, lines 123-125: one iteration of the loop.  A blank URL is
\* skipped; an exception of scrape_url leaves scrape_all.
ScrapeAllStep ==
    /\ driver = "scrape_all"
    /\ dpc = "loop"
    /\ idx <= Len(urls)
    /\ IF Strip(urls[idx]) = ""
       THEN /\ idx' = idx + 1
            /\ UNCHANGED <<last_request, now, dpc, all_results, last_call>>
       ELSE \E out \in Outcomes(urls[idx], arg_limit, "") :
                /\ last_call' = out.call
                /\ last_request' = out.last_request
                /\ now' = out.now
                /\ IF out.call.raised # None
                   THEN /\ dpc' = "raised"
                        /\ UNCHANGED <<idx, all_results>>
                   ELSE /\ all_results' = extend(all_results, out.call.result)
                        /\ idx' = idx + 1
                        /\ dpc' = dpc
    /\ UNCHANGED <<unit, mainVars, requests_per_minute, default_delay, lock, threadVars,
                   driver, urls, arg_limit, arg_name>>

\* scrape_all, line 126: return all_results
ScrapeAllReturn ==
    /\ driver = "scrape_all"
    /\ dpc = "loop"
    /\ idx > Len(urls)
    /\ dpc' = "returned"
    /\ UNCHANGED <<limiterVars, threadVars, driver, urls, arg_limit, arg_name, idx, all_results,
                   last_call, unit, mainVars>>

\* a direct call scrape_url(url, limit, name) for the next URL of the list;
\* the caller stops at an exception
ScrapeUrlCall ==
    /\ driver = "scrape_url"
    /\ dpc = "loop"
    /\ idx <= Len(urls)
    /\ \E out \in Outcomes(urls[idx], arg_limit, arg_name) :
           /\ last_call' = out.call
           /\ last_request' = out.last_request
           /\ now' = out.now
           /\ dpc' = IF out.call.raised # None THEN "raised" ELSE dpc
    /\ idx' = idx + 1
    /\ UNCHANGED <<unit, mainVars, requests_per_minute, default_delay, lock, threadVars,
                   driver, urls, arg_limit, arg_name, all_results>>

Next ==
    \/ ScrapeAllStep
    \/ ScrapeAllReturn
    \/ ScrapeUrlCall

Spec == Init /\ [][Next]_vars

-----------------------------------------------------------------------------
(* main of src/main.py: the per-URL loop over the URLs read by
   get_cli_inputs, and the failure bookkeeping around scrape_url. *)

\* the longest list of URLs given to main
MaxMainUrls == 3

\* URLs typed at the prompt: get_cli_inputs strips them and drops the blank
\* ones
MainUrls ==
    {"https://example.com/page",
     "https://www.example.com/feed/",
     "https://reddit.com/r/test.rss",
     "not a url"}

\* the non-empty lists of at most n URLs (get_cli_inputs replaces an empty
\* list by its default feeds)
RECURSIVE MainLists(_)
MainLists(n) ==
    IF n = 1 THEN {<<u>> : u \in MainUrls}
    ELSE LET shorter == MainLists(n - 1) IN
         shorter \cup {Append(l, u) : l \in {x \in shorter : Len(x) = n - 1}, u \in MainUrls}

\* main, lines 99-105: the legacy row of one record
legacy_row(r) == <<r.title, r.date, r.source, r.link, r.content>>

\* main, lines 97-105: legacy_results
legacy_results(results) == [i \in 1..Len(results) |-> legacy_row(results[i])]

\* one iteration of the loop that records a failure only when scrape_url
\* raises
main_iterationRaisedOnly(rows, failed, url, call) ==
    IF call.raised # None
    THEN [news_data_raw |-> rows, failed_urls |-> Append(failed, url)]
    ELSE [news_data_raw |-> rows \o [i \in 1..Len(call.result) |->
                                        <<call.result[i].title, call.result[i].date,
                                          call.result[i].source, call.result[i].link,
                                          call.result[i].content>>],
          failed_urls |-> failed]

\* main, lines 91-115: one iteration of the loop for url, whose scrape_url
\* call ended as call: the rows collected and the URLs recorded as failed
main_iteration(rows, failed, url, call) ==
    IF call.raised # None
    THEN [news_data_raw |-> rows, failed_urls |-> Append(failed, url)]
    ELSE IF call.result # <<>>
    THEN [news_data_raw |-> extend(rows, legacy_results(call.result)),
          failed_urls |-> failed]
    ELSE [news_data_raw |-> rows, failed_urls |-> Append(failed, url)]

InitMain ==
    /\ requests_per_minute = ScraperRate
    /\ default_delay = DefaultDelay
    /\ last_request = EmptyDict
    /\ lock = 0
    /\ now = Whole(0)
    /\ pc = [t \in Threads |-> "idle"]
    /\ frame = [t \in Threads |-> NoFrame]
    /\ granted = NoGrant
    /\ driver = "main"
    /\ urls \in MainLists(MaxMainUrls)
    /\ arg_limit \in Limits
    /\ arg_name = ""
    /\ idx = 1
    /\ dpc = "loop"
    /\ all_results = <<>>
    /\ last_call = NoCall
    /\ unit = NoUnit
    /\ news_data_raw = <<>>
    /\ failed_urls = <<>>
    /\ main_log = <<>>

\* main, lines 90-115: one iteration of `for url in urls`; an exception of
\* scrape_url is caught at line 112
MainStep ==
    /\ driver = "main"
    /\ dpc = "loop"
    /\ idx <= Len(urls)
    /\ \E out \in Outcomes(urls[idx], arg_limit, "") :
           LET it == main_iteration(news_data_raw, failed_urls, urls[idx], out.call) IN
           /\ last_call' = out.call
           /\ last_request' = out.last_request
           /\ now' = out.now
           /\ news_data_raw' = it.news_data_raw
           /\ failed_urls' = it.failed_urls
           /\ main_log' = Append(main_log, out.call)
    /\ idx' = idx + 1
    /\ UNCHANGED <<unit, requests_per_minute, default_delay, lock, threadVars,
                   driver, urls, arg_limit, arg_name, dpc, all_results>>

\* main, lines 117-125, after the loop: main returns when no row was
\* collected and goes on to save the rows otherwise
MainEnd ==
    /\ driver = "main"
    /\ dpc = "loop"
    /\ idx > Len(urls)
    /\ dpc' = IF news_data_raw = <<>> THEN "returned" ELSE "saving"
    /\ UNCHANGED <<limiterVars, threadVars, driver, urls, arg_limit, arg_name, idx, all_results,
                   last_call, unit, mainVars>>

NextMain ==
    \/ MainStep
    \/ MainEnd

SpecMain == InitMain /\ [][NextMain]_vars

-----------------------------------------------------------------------------
(* Direct callers of one component: SourceDetector.detect and the extract of
   an extractor, each called once with inputs of its own (the components keep
   no state between calls). *)

\* the most entries a feed has
MaxEntries == 3

\* the largest max_items of a SourceConfig
MaxItems == 2

\* URLs handed to detect: platform URLs, feed-shaped URLs in both cases,
\* URLs of neither shape and strings that are no URLs
DetectUrls ==
    {"https://reddit.com/r/test",
     "https://REDDIT.com/R/Test.rss",
     "https://www.reddit.com/user/bob/",
     "https://reddit.com/r/été",
     "https://reddit.com/r/",
     "https://stackoverflow.com/questions",
     "https://StackOverflow.com/search?q=tla",
     "https://stackoverflow.com/questions/tagged/python/feed",
     "https://stackoverflow.com/tags",
     "https://example.com/feed",
     "https://example.com/FEED/",
     "https://example.com/rss",
     "https://example.com/blog/atom/",
     "https://example.com/sitemap.XML",
     "https://example.com/news.rss",
     "https://example.com/feeds",
     "https://example.com/feed\n",
     "https://example.com/page",
     " HTTP://Example.com/page",
     "https://",
     "not a url",
     ""}

\* the feeds of at most n entries
RECURSIVE EntryLists(_)
EntryLists(n) ==
    IF n = 0 THEN {<<>>}
    ELSE LET shorter == EntryLists(n - 1) IN
         shorter \cup {Append(l, e) : l \in {x \in shorter : Len(x) = n - 1},
                                      e \in {Entry1, Entry2, Entry3, Entry4, Entry5,
                                             Entry6}}

\* what feedparser.parse can give
UnitFeeds ==
    {[NoPage EXCEPT !.ok = FALSE, !.error = "'NoneType' object has no attribute 'value'"]}
        \cup {[NoPage EXCEPT !.entries = l] : l \in EntryLists(MaxEntries)}

\* what trafilatura can give the static-HTML strategy
UnitHtmlPages ==
    HtmlPages \cup {[NoPage EXCEPT !.date = [year |-> 2025, month |-> 3, day |-> 9]],
                    [NoPage EXCEPT !.title = "No Title", !.text = ""]}

\* the SourceConfig objects handed to extract: SourceConfig.__post_init__
\* admits http(s) URLs and max_items >= 1
UnitConfigs ==
    {[url |-> u, name |-> n, max_items |-> k, source_type |-> t] :
        u \in {"https://example.com/feed", "https://www.example.com/page"},
        n \in {"My Feed", "https://example.com/feed"},
        k \in 1..MaxItems,
        t \in {RSS_FEED, STATIC_HTML}}

\* what Playwright and trafilatura can give the dynamic-HTML strategy
UnitDynamicPages ==
    DynamicPages \cup
    {[NoPage EXCEPT !.ok = FALSE,
                    !.error = "Page.goto: net::ERR_NAME_NOT_RESOLVED at https://www.example.com/page"],
     [NoPage EXCEPT !.content_html = "<html><h1>Access Denied</h1></html>"],
     [NoPage EXCEPT !.content_html =
                        "<html>Checking if the site connection is secure</html>"],
     [NoPage EXCEPT !.content_html = "<html>Email verification explained</html>"],
     [NoPage EXCEPT !.content_html = "", !.extracted = FALSE],
     [NoPage EXCEPT !.title = "No Title", !.text = ""]}

\* the SourceConfig objects handed to the dynamic-HTML strategy
UnitDynamicConfigs ==
    {[url |-> u, name |-> n, max_items |-> k, source_type |-> t] :
        u \in {"https://www.example.com/page", "https://www.reddit.com/r/test/comments/abc/"},
        n \in {"My Feed"},
        k \in 1..MaxItems,
        t \in {DYNAMIC_HTML, REDDIT}}

InitUnits ==
    /\ requests_per_minute = ScraperRate
    /\ default_delay = DefaultDelay
    /\ last_request = EmptyDict
    /\ lock = 0
    /\ now = Whole(0)
    /\ pc = [t \in Threads |-> "idle"]
    /\ frame = [t \in Threads |-> NoFrame]
    /\ granted = NoGrant
    /\ driver = "none"
    /\ urls = <<>>
    /\ arg_limit = 0
    /\ arg_name = ""
    /\ idx = 1
    /\ dpc = "returned"
    /\ all_results = <<>>
    /\ last_call = NoCall
    /\ unit = NoUnit
    /\ news_data_raw = <<>>
    /\ failed_urls = <<>>
    /\ main_log = <<>>

\* SourceDetector.detect(url), in a network that answers the header probe
\* with head and the body fetch with body; both fail for a string requests
\* cannot fetch
DetectCall ==
    /\ unit = NoUnit
    /\ \E url \in DetectUrls, head \in Heads, body \in Bodies :
           /\ ~Fetchable(url) => (~head.ok /\ ~body.ok)
           /\ unit' = [fn |-> "detect", url |-> url, head |-> head, body |-> body,
                       result |-> detect(url, head, body)]
    /\ UNCHANGED <<limiterVars, threadVars, scraperVars, mainVars>>

\* RSSExtractor.extract(config), the feed parser answering with feed
RssExtractCall ==
    /\ unit = NoUnit
    /\ \E config \in UnitConfigs, feed \in UnitFeeds :
           unit' = [fn |-> "rss_extract", config |-> config, page |-> feed,
                    result |-> rss_extract(config, feed)]
    /\ UNCHANGED <<limiterVars, threadVars, scraperVars, mainVars>>

\* HTMLExtractor.extract(config), trafilatura answering with page
HtmlExtractCall ==
    /\ unit = NoUnit
    /\ \E config \in UnitConfigs, page \in UnitHtmlPages :
           unit' = [fn |-> "html_extract", config |-> config, page |-> page,
                    result |-> html_extract(config, page)]
    /\ UNCHANGED <<limiterVars, threadVars, scraperVars, mainVars>>

\* DynamicExtractor.extract(config), the browser and trafilatura answering
\* with page
DynamicExtractCall ==
    /\ unit = NoUnit
    /\ \E config \in UnitDynamicConfigs, page \in UnitDynamicPages :
           unit' = [fn |-> "dynamic_extract", config |-> config, page |-> page,
                    result |-> dynamic_extract(config, page),
                    events |-> dynamic_events(config, page)]
    /\ UNCHANGED <<limiterVars, threadVars, scraperVars, mainVars>>

NextUnits ==
    \/ DetectCall
    \/ RssExtractCall
    \/ HtmlExtractCall
    \/ DynamicExtractCall

SpecUnits == InitUnits /\ [][NextUnits]_vars

-----------------------------------------------------------------------------
(* Properties of the rate limiter, checked under SpecLimiter. *)

\* the interval the limiter is configured with: self.min_delay
MinInterval == min_delay(requests_per_minute, default_delay)

\* thread t, about to take the lock, would not sleep if it held the lock now
NeedsNoWait(t) ==
    sleep_time(LastOf(last_request, frame[t].domain), now,
               required_delay(MinInterval, wait_delay(frame[t].custom_delay, default_delay)))
        = Whole(0)

\* thread t is kept out of the lock by thread u, which sleeps out the
\* interval of another host
BlockedBySleeper(t, u) ==
    /\ pc[t] = "acquire"
    /\ pc[u] = "sleeping"
    /\ lock = u
    /\ frame[u].domain # frame[t].domain

\* C7: wait calls for different hosts do not delay each other: no caller whose
\* host needs no wait is blocked while another caller sleeps out the interval
\* of a different host.
C7_DifferentHostsDoNotBlock ==
    \A t, u \in Threads : ~(BlockedBySleeper(t, u) /\ NeedsNoWait(t))

\* C8: whatever the interleaving of concurrent wait calls, a grant recorded for
\* a host that already has a grant recorded (since the last reset) is at least
\* the minimum interval after it; in particular a call that took the "no wait
\* needed" path was not within the minimum interval of the grant before it.
C8_SameHostGrantsSpaced ==
    granted.prev # NoTime =>
        /\ ~Less(Minus(granted.time, granted.prev), MinInterval)
        /\ granted.slept = Whole(0) => ~Less(granted.elapsed, MinInterval)

\* C8 witness: two threads contended for one host: one was granted after
\* sleeping out exactly the minimum interval while the other is queued on the
\* lock for the same host.
C8_Witness ==
    /\ granted.prev # NoTime
    /\ Less(Whole(0), granted.slept)
    /\ Minus(granted.time, granted.prev) = MinInterval
    /\ \E t \in Threads : pc[t] = "acquire" /\ frame[t].domain = granted.host

\* C9: with requests_per_minute = r > 0 and no custom delay, the interval is
\* exactly 60 / r: the first wait for a host and a wait arriving e >= 60 / r
\* after the last grant do not sleep, a wait arriving e < 60 / r after it
\* sleeps 60 / r - e; the grant time is recorded for the host on return.
C9_IntervalIsSixtyOverRate ==
    (granted.host # None /\ granted.custom_delay = 0 /\ requests_per_minute > 0) =>
        LET interval == Fraction(60, requests_per_minute) IN
        /\ granted.prev = NoTime => granted.slept = Whole(0)
        /\ (granted.prev # NoTime /\ ~Less(granted.elapsed, interval)) =>
               granted.slept = Whole(0)
        /\ (granted.prev # NoTime /\ Less(granted.elapsed, interval)) =>
               granted.slept = Minus(interval, granted.elapsed)
        /\ granted.host \in DOMAIN last_request =>
               ~Less(last_request[granted.host], granted.time)

-----------------------------------------------------------------------------
(* Properties of scrape_url and scrape_all, checked under Spec.  last_call is
   the record of the scrape_url call that ended last. *)

\* the positions of event e in the events of the last call
EventsAt(e) == {i \in DOMAIN last_call.events : last_call.events[i] = e}

\* C1: scrape_url never propagates an exception to its caller: whatever the
\* URL and the limit, the call returns a list.
C1_ScrapeUrlNeverRaises ==
    last_call.raised = None

\* C2: a failure while scrape_all processes one URL never aborts the batch:
\* as long as URLs of the list are left, the loop is still running.
C2_BatchNeverAborted ==
    (driver = "scrape_all" /\ idx <= Len(urls)) => dpc = "loop"

\* C3: for every URL that passes validation a source type has been decided
\* before routing: it is forced by the Reddit or StackOverflow rewrite rule, or
\* the detector was asked for it; a URL no rewrite rule applies to is
\* classified by the detector.
C3_TypeDecidedBeforeRouting ==
    last_call.valid =>
        /\ last_call.source_type \in SourceType
        /\ rewrite(last_call.url).source_type = None => EventsAt("detect") # {}

\* C4: a call whose limit is below 1 is rejected before any network action:
\* no header probe, no body fetch, no rate limiter wait and no extract.
C4_LimitRejectedBeforeNetwork ==
    (last_call.url # "" /\ last_call.limit < 1) =>
        \A e \in {"head", "get", "wait", "extract"} : EventsAt(e) = {}

\* C5: a scrape_url call whose URL fails validation returns an empty list,
\* without a detector call, a rate limiter wait or an extract, and leaves the
\* limiter's last_request unchanged.
C5_InvalidUrlDoesNothing ==
    [][(/\ dpc = "loop"
        /\ idx <= Len(urls)
        /\ ~(driver = "scrape_all" /\ Strip(urls[idx]) = "")
        /\ ~last_call'.valid)
       => (/\ last_call'.url = urls[idx]
           /\ last_call'.raised = None
           /\ last_call'.result = <<>>
           /\ last_call'.events = <<>>
           /\ last_request' = last_request)]_vars

\* C5 witness: a call with a URL that fails validation has ended, after an
\* earlier call left a grant in the limiter.
C5_Witness ==
    /\ last_call.url = "not a url"
    /\ ~last_call.valid
    /\ last_call.result = <<>>
    /\ last_request # EmptyDict

\* C6: without a name, the source of every record scrape_url returns is the
\* bare domain of the URL; with a name, it is that name.
C6_SourceIsNameOrBareDomain ==
    \A i \in DOMAIN last_call.result :
        last_call.result[i].source =
            IF last_call.name # "" THEN last_call.name
            ELSE get_domain_name(last_call.url)

\* C10: for every URL that passes validation scrape_url waits on the rate
\* limiter exactly once, for the host of the effective URL, after the source
\* type is decided and before extract begins; extract never starts without
\* the wait, and the grant stays recorded when extract fails.
C10_OneWaitBeforeExtract ==
    last_call.valid =>
        /\ Cardinality(EventsAt("wait")) = 1
        /\ last_call.source_type \in SourceType
        /\ last_call.wait_host = extract_domain(last_call.eff_url)
        /\ \A i \in EventsAt("wait") :
               /\ \A j \in EventsAt("detect") \cup EventsAt("head") \cup EventsAt("get") : j < i
               /\ \A j \in EventsAt("extract") : i < j
        /\ last_call.wait_host \in DOMAIN last_request

\* the URL of the last call is a Reddit subreddit or user URL
IsRedditUrl ==
    Contains(last_call.url, "reddit.com/r/") \/ Contains(last_call.url, "reddit.com/user/")

\* the last call raised nothing and invoked extract of the given strategy
RoutedTo(extractor) ==
    last_call.raised = None =>
        last_call.extractor = extractor /\ EventsAt("extract") # {}

\* C11: the Reddit rule: a validated URL containing reddit.com/r/ or
\* reddit.com/user/ that contains /comments/ is left unchanged and gets the
\* type reddit (the dynamic strategy); otherwise, when it does not end in
\* .rss, its trailing slashes are removed, ".rss" is appended, the type is
\* forced to feed (the feed strategy) and the detector is not called.
C11_RedditRule ==
    (last_call.valid /\ IsRedditUrl) =>
        IF Contains(last_call.url, "/comments/")
        THEN /\ last_call.eff_url = last_call.url
             /\ last_call.source_type = REDDIT
             /\ EventsAt("detect") = {}
             /\ RoutedTo("DynamicExtractor")
        ELSE ~EndsWith(last_call.url, ".rss") =>
             /\ last_call.eff_url = RStripSlash(Strip(last_call.url)) \o ".rss"
             /\ ~EndsWith(last_call.eff_url, "/.rss")
             /\ last_call.url = "https://reddit.com/r/test/" =>
                    last_call.eff_url = "https://reddit.com/r/test.rss"
             /\ last_call.source_type = RSS_FEED
             /\ EventsAt("detect") = {}
             /\ RoutedTo("RSSExtractor")

\* C11 witness: https://reddit.com/r/test/ was fetched as
\* https://reddit.com/r/test.rss by the feed strategy, which returned items.
C11_Witness ==
    /\ last_call.url = "https://reddit.com/r/test/"
    /\ last_call.eff_url = "https://reddit.com/r/test.rss"
    /\ last_call.extractor = "RSSExtractor"
    /\ Len(last_call.result) > 0

\* C12: the StackOverflow rule: a validated non-Reddit URL containing
\* stackoverflow.com and /questions that does not end in .rss is replaced by
\* https://stackoverflow.com/feeds, its type is forced to feed, the detector
\* is not called and it goes to the feed strategy.
C12_StackOverflowRule ==
    (/\ last_call.valid
     /\ ~IsRedditUrl
     /\ Contains(last_call.url, "stackoverflow.com")
     /\ Contains(last_call.url, "/questions")
     /\ ~EndsWith(last_call.url, ".rss")) =>
        /\ last_call.eff_url = "https://stackoverflow.com/feeds"
        /\ last_call.source_type = RSS_FEED
        /\ EventsAt("detect") = {}
        /\ RoutedTo("RSSExtractor")

\* C12 witness: a StackOverflow question listing was fetched from the feed
\* endpoint by the feed strategy, after a wait for stackoverflow.com.
C12_Witness ==
    /\ last_call.url = "https://stackoverflow.com/questions"
    /\ last_call.eff_url = "https://stackoverflow.com/feeds"
    /\ last_call.extractor = "RSSExtractor"
    /\ last_call.wait_host = "stackoverflow.com"
    /\ Len(last_call.result) > 0

\* C13: the strategy depends only on the decided type: feed types go to the
\* feed strategy, static-html to the static-HTML strategy, dynamic-html,
\* reddit and stackoverflow to the dynamic strategy, every other type to the
\* static-HTML strategy; for every validated URL exactly one extract is
\* invoked, of that strategy.
C13_RoutingByType ==
    /\ \A t \in SourceType :
           extractor_for(t) = IF t \in {RSS_FEED, ATOM_FEED} THEN "RSSExtractor"
                              ELSE IF t \in {DYNAMIC_HTML, REDDIT, STACKOVERFLOW}
                              THEN "DynamicExtractor"
                              ELSE "HTMLExtractor"
    /\ last_call.valid =>
           /\ Cardinality(EventsAt("extract")) = 1
           /\ last_call.source_type \in SourceType
           /\ last_call.extractor = extractor_for(last_call.source_type)

-----------------------------------------------------------------------------
(* Properties of the detector and the extractors, checked under SpecUnits.
   unit is the record of the direct call that ended last. *)

\* the network requests the last detect call made
Requested(r) == \E i \in DOMAIN unit.result.requests : unit.result.requests[i] = r

\* C14: detect never raises: whatever the string and whatever the network
\* answers, failing requests included, it returns a SourceType; when the
\* body fetch it attempted fails, it returns static_html.
C14_DetectNeverRaises ==
    unit.fn = "detect" =>
        /\ unit.result.type \in SourceType
        /\ (Requested("get") /\ ~unit.body.ok) => unit.result.type = STATIC_HTML

\* C14 witness: detect was called with a string that is no URL, both requests
\* failed, and it returned static_html.
C14_Witness ==
    /\ unit.fn = "detect"
    /\ unit.url = "not a url"
    /\ ~unit.head.ok /\ ~unit.body.ok
    /\ unit.result.requests = <<"head", "get">>
    /\ unit.result.type = STATIC_HTML

\* the URL of the last detect call ends, in any case of letters, in /feed,
\* /rss, /atom (a trailing slash allowed), .xml or .rss
EndsInFeedSuffix ==
    \E suffix \in {"/feed", "/feed/", "/rss", "/rss/", "/atom", "/atom/", ".xml", ".rss"} :
        SearchLiteralAtEnd(suffix, unit.url)

\* C15, as stated: for every URL that ends in a feed suffix detect returns the
\* feed type and performs neither the header probe nor the body fetch.
C15_FeedUrlsAreFeeds ==
    (unit.fn = "detect" /\ EndsInFeedSuffix) =>
        /\ unit.result.type = RSS_FEED
        /\ unit.result.requests = <<>>

\* C15, amended: for every URL that ends in a feed suffix detect performs
\* neither the header probe nor the body fetch; it returns the feed type
\* when the URL matches no platform pattern, and the platform type when it
\* matches one.
C15_FeedUrlsOffPlatformAreFeeds ==
    (unit.fn = "detect" /\ EndsInFeedSuffix) =>
        /\ unit.result.requests = <<>>
        /\ unit.result.type =
               IF check_platform_patterns(unit.url) = None THEN RSS_FEED
               ELSE check_platform_patterns(unit.url)

\* C15 witness: a URL ending in /FEED/ was classified as a feed although the
\* network would have answered text/html: it was not asked.
C15_Witness ==
    /\ unit.fn = "detect"
    /\ unit.url = "https://example.com/FEED/"
    /\ unit.head.ok /\ unit.head.content_type = "text/html; charset=UTF-8"
    /\ (unit.result.type = RSS_FEED /\ unit.result.requests = <<>>)

\* C16: for every URL matching a platform pattern, in any case of letters,
\* detect returns the platform type (reddit or stackoverflow) and performs
\* neither the header probe nor the body fetch.
C16_PlatformUrlsAreClassified ==
    unit.fn = "detect" =>
        /\ unit.url \in {"https://reddit.com/r/test", "https://REDDIT.com/R/Test.rss",
                         "https://www.reddit.com/user/bob/",
                         "https://reddit.com/r/été"} =>
               (unit.result.type = REDDIT /\ unit.result.requests = <<>>)
        /\ unit.url \in {"https://stackoverflow.com/questions",
                         "https://StackOverflow.com/search?q=tla",
                         "https://stackoverflow.com/questions/tagged/python/feed"} =>
               (unit.result.type = STACKOVERFLOW /\ unit.result.requests = <<>>)
        /\ check_platform_patterns(unit.url) # None =>
               (/\ unit.result.type = check_platform_patterns(unit.url)
                /\ unit.result.requests = <<>>)

\* C16 witness: a Reddit URL in upper case that also ends in .rss was
\* classified as reddit, without a request.
C16_Witness ==
    /\ unit.fn = "detect"
    /\ unit.url = "https://REDDIT.com/R/Test.rss"
    /\ unit.head.ok
    /\ (unit.result.type = REDDIT /\ unit.result.requests = <<>>)

-----------------------------------------------------------------------------
(* Properties of scrape_all and of the conversion of items, checked under
   Spec. *)

\* C17: scrape_all works through the URLs one after another in input order,
\* skipping blank ones, and appends the result of scrape_url for each to
\* what it collected before; it returns what it collected once the list is
\* exhausted; the records of one URL are those of the items the strategy
\* produced, one per item, in their order.
C17_ScrapeAllConcatenates ==
    [][(driver = "scrape_all" /\ dpc = "loop") =>
          IF idx > Len(urls)
          THEN dpc' = "returned" /\ all_results' = all_results
          ELSE IF Strip(urls[idx]) = ""
          THEN idx' = idx + 1 /\ all_results' = all_results /\ last_call' = last_call
          ELSE /\ last_call'.url = urls[idx]
               /\ last_call'.limit = arg_limit
               /\ Len(last_call'.result) = Len(last_call'.items)
               /\ \A i \in DOMAIN last_call'.result :
                      /\ last_call'.result[i].title = last_call'.items[i].title
                      /\ last_call'.result[i].link = last_call'.items[i].source_url
               /\ last_call'.raised = None =>
                      /\ idx' = idx + 1
                      /\ dpc' = "loop"
                      /\ all_results' = all_results \o last_call'.result]_vars

\* C17 witness: scrape_all returned for a list of two different URLs; the
\* records of the first URL come first and those of the second come last.
C17_Witness ==
    /\ driver = "scrape_all"
    /\ dpc = "returned"
    /\ Len(urls) = 2
    /\ urls[1] # urls[2]
    /\ Len(all_results) >= 3
    /\ all_results[1].source = urls[1]
    /\ all_results[Len(all_results)].source = urls[2]

-----------------------------------------------------------------------------
(* Properties of the extractors, checked under SpecUnits. *)

\* the summary an entry carries: its summary, else its description, else its
\* first content element, else nothing
SummaryOf(entry) ==
    IF entry.summary \notin {None, ""} THEN entry.summary
    ELSE IF entry.description \notin {None, ""} THEN entry.description
    ELSE IF entry.has_content THEN entry.content[1]
    ELSE ""

\* C18: for a feed with N entries and max_items = k the feed strategy
\* returns exactly min(N, k) items, made from the first min(N, k) entries in
\* feed order; a feed without entries gives an empty list and no exception.
C18_FeedTakesFirstMin ==
    (unit.fn = "rss_extract" /\ unit.page.ok) =>
        LET entries == unit.page.entries
            N == Len(entries)
            k == unit.config.max_items
            items == unit.result.items
        IN  /\ unit.result.raised = None
            /\ Len(items) = IF N <= k THEN N ELSE k
            /\ \A i \in DOMAIN items :
                   /\ items[i].content = SummaryOf(entries[i])
                   /\ items[i].title = IF entries[i].title = None THEN "No Title"
                                       ELSE entries[i].title

\* C19: when the download fails or no content is found, the static-HTML
\* strategy returns an empty list and raises nothing; in every other run
\* without an internal failure it returns one ContentItem, whose URL is
\* the URL of the config.
C19_HtmlSoftMisses ==
    (unit.fn = "html_extract" /\ unit.page.ok) =>
        /\ unit.result.raised = None
        /\ IF ~unit.page.downloaded \/ ~unit.page.extracted
           THEN unit.result.items = <<>>
           ELSE /\ Len(unit.result.items) = 1
                /\ unit.result.items[1].source_url = unit.config.url
                /\ unit.result.items[1].source_type = STATIC_HTML

\* C19 witness: the download of the page failed and extract returned an
\* empty list.
C19_Witness ==
    /\ unit.fn = "html_extract"
    /\ unit.page.ok
    /\ ~unit.page.downloaded
    /\ unit.result = Returned(<<>>)

-----------------------------------------------------------------------------
(* Properties of the records of scrape_url, checked under Spec. *)

\* C20: the date of each record is the published timestamp of its item as
\* YYYY-MM-DD when the item has one, and the current date as YYYY-MM-DD when
\* it has none; title, link and content are copied from the item.
C20_RecordDateAndCopies ==
    \A i \in DOMAIN last_call.result :
        LET item == last_call.items[i]
            rec == last_call.result[i]
        IN  /\ rec.title = item.title
            /\ rec.link = item.source_url
            /\ rec.content = item.content
            /\ Len(rec.date) = 10 /\ Char(rec.date, 5) = "-" /\ Char(rec.date, 8) = "-"
            /\ item.published_at = [year |-> 2025, month |-> 12, day |-> 31] =>
                   rec.date = "2025-12-31"
            /\ item.published_at = [year |-> 2025, month |-> 3, day |-> 9] =>
                   rec.date = "2025-03-09"
            /\ item.published_at = [year |-> 999, month |-> 12, day |-> 31] =>
                   rec.date = "0999-12-31"
            /\ item.published_at = NoDate => rec.date = "2026-01-05"

-----------------------------------------------------------------------------
(* Properties of main's bookkeeping, checked under SpecMain. *)

\* the scrape_url call of iteration i raised or returned no record
IterationFailed(i) == main_log[i].raised # None \/ main_log[i].result = <<>>

\* the URLs of the failed iterations among the first n, in order
RECURSIVE FailedUpTo(_)
FailedUpTo(n) ==
    IF n = 0 THEN <<>>
    ELSE IF IterationFailed(n) THEN Append(FailedUpTo(n - 1), urls[n])
    ELSE FailedUpTo(n - 1)

\* the records of the iterations among the first n that did not fail, as
\* rows, in order
RECURSIVE RowsUpTo(_)
RowsUpTo(n) ==
    IF n = 0 THEN <<>>
    ELSE IF IterationFailed(n) THEN RowsUpTo(n - 1)
    ELSE RowsUpTo(n - 1) \o
         [j \in 1..Len(main_log[n].result) |->
             LET r == main_log[n].result[j] IN <<r.title, r.date, r.source, r.link, r.content>>]

\* C21: after main's loop over the input URLs, failed_urls holds the URL of
\* an iteration exactly when its scrape_url call returned no record or
\* raised, once for each such iteration and in input order, and
\* news_data_raw holds exactly the records of the other iterations.
C21_MainBookkeeping ==
    (driver = "main" /\ dpc # "loop") =>
        /\ Len(main_log) = Len(urls)
        /\ failed_urls = FailedUpTo(Len(urls))
        /\ Len(failed_urls) = Cardinality({i \in DOMAIN urls : IterationFailed(i)})
        /\ news_data_raw = RowsUpTo(Len(urls))

\* C21 witness: of three URLs the strategy of one raised and the other two
\* gave records; their rows were collected and one failure was recorded.
C21_Witness ==
    /\ driver = "main"
    /\ dpc = "saving"
    /\ Len(urls) = 3
    /\ Len(main_log) = 3
    /\ \E i \in 1..3 :
           /\ main_log[i].extract_raised = "ExtractionError"
           /\ failed_urls = <<urls[i]>>
           /\ \A j \in (1..3) \ {i} : main_log[j].result # <<>>
    /\ Len(news_data_raw) =
           Len(main_log[1].result) + Len(main_log[2].result) + Len(main_log[3].result)

-----------------------------------------------------------------------------
(* Properties of the detector's algorithm, checked under SpecUnits. *)

\* the steps of detect, in their order
DetectOrder == <<"platform", "feed_url", "head", "get", "default">>

\* step i of detect gives a signal for the inputs of the call recorded
StepSignals(i) ==
    IF i = 1 THEN check_platform_patterns(unit.url) # None
    ELSE IF i = 2 THEN is_feed_url(unit.url)
    ELSE IF i = 3 THEN /\ unit.head.ok
                       /\ \E t \in {"xml", "rss", "atom"} :
                              Contains(Lower(unit.head.content_type), t)
    ELSE IF i = 4 THEN unit.body.ok /\ analyze_content(unit.body) # None
    ELSE TRUE

\* C22: detect attempts platform pattern, feed URL shape, header probe,
\* body sniff and default in this order, each at most once, and stops at the
\* first step that gives a signal; a header probe that fails or answers
\* without xml/rss/atom is followed by the body sniff, and a body sniff that
\* fails or finds nothing by the default static-html.
C22_StepsInOrder ==
    unit.fn = "detect" =>
        LET steps == unit.result.steps
            n == Len(steps)
        IN  /\ n \in 1..Len(DetectOrder)
            /\ steps = SubSeq(DetectOrder, 1, n)
            /\ StepSignals(n)
            /\ \A i \in 1..(n - 1) : ~StepSignals(i)
            /\ (n >= 3 /\ ~StepSignals(3)) => (n >= 4 /\ steps[4] = "get")
            /\ (n >= 4 /\ ~StepSignals(4)) => (n = 5 /\ unit.result.type = STATIC_HTML)
            /\ unit.result.requests = SelectSeq(steps, LAMBDA st : st \in {"head", "get"})

\* C22 witness: the header probe failed, the body was still fetched, gave no
\* signal, and detect answered static-html.
C22_Witness ==
    /\ unit.fn = "detect"
    /\ ~unit.head.ok
    /\ unit.body.ok
    /\ unit.result.steps = DetectOrder
    /\ unit.result.type = STATIC_HTML

-----------------------------------------------------------------------------
(* Properties of the failures of the extractors, checked under SpecUnits. *)

\* C23: an entry whose timestamp cannot be derived (no published or updated
\* field, or one that does not convert to a timestamp) becomes an item
\* without timestamp; extract does not raise and loses no entry.  (Stated
\* for the feeds whose links are all joined to the URL of the config.)
C23_FeedDatesFailOpen ==
    (/\ unit.fn = "rss_extract"
     /\ unit.page.ok
     /\ \A i \in DOMAIN unit.page.entries :
            rss_link(unit.config, unit.page.entries[i]).raised = None) =>
        LET entries == unit.page.entries
            N == Len(entries)
            k == unit.config.max_items
            items == unit.result.items
        IN  /\ unit.result.raised = None
            /\ Len(items) = IF N <= k THEN N ELSE k
            /\ \A i \in DOMAIN items :
                   (entries[i].date = NoDate \/ OutOfRange(entries[i].date)) =>
                       items[i].published_at = NoDate

\* C24: whatever an extract raises is an ExtractionError whose message
\* carries the URL of the config.
C24_FailuresCarryUrl ==
    (unit.fn \in {"rss_extract", "html_extract", "dynamic_extract"}
        /\ unit.result.raised # None) =>
        /\ unit.result.raised = "ExtractionError"
        /\ Contains(unit.result.message, unit.config.url)

\* C25: for a bot-challenge page, an empty page or a page without
\* extractable content the dynamic-HTML strategy returns an empty list and
\* raises nothing; every other run without a failure returns one
\* ContentItem; in both cases the browser was closed, once, before extract
\* returned.
C25_DynamicSoftMisses ==
    (unit.fn = "dynamic_extract" /\ unit.page.playwright /\ unit.page.ok) =>
        LET html == unit.page.content_html
            miss == \/ Contains(html, "Checking if the site connection is secure")
                    \/ Contains(html, "Verification")
                    \/ Contains(html, "Access Denied")
                    \/ html = ""
                    \/ ~unit.page.extracted
            closes == {i \in DOMAIN unit.events : unit.events[i] = "close"}
        IN  /\ unit.result.raised = None
            /\ IF miss THEN unit.result.items = <<>>
               ELSE /\ Len(unit.result.items) = 1
                    /\ unit.result.items[1].source_url = unit.config.url
            /\ Cardinality(closes) = 1
            /\ \A i \in closes : \E j \in 1..(i - 1) : unit.events[j] = "launch"

\* C25 witness: the browser rendered a verification page; extract closed the
\* browser and returned an empty list.
C25_Witness ==
    /\ unit.fn = "dynamic_extract"
    /\ unit.page.playwright
    /\ unit.page.ok
    /\ Contains(unit.page.content_html, "Verification")
    /\ unit.result = Returned(<<>>)
    /\ unit.events[Len(unit.events)] = "close"

====
